---- MODULE Spec2Model ----
(***************************************************************************)
(* A model of plox, the tree-walking Lox interpreter under src/plox:       *)
(* the scanner (scanner.py), the resolver (resolver.py), the environment   *)
(* chain (environment.py), the callables and classes (callable.py,         *)
(* classes.py), the interpreter (interpreter.py) and the driver (lox.py).  *)
(*                                                                         *)
(* SpecScan runs Scanner.scan over every source text of a bounded length,  *)
(* SpecParse runs Parser.parse over token lists, SpecFor and SpecLocals    *)
(* run Lox.run on `for` loops and on references that share a name.         *)
(* Spec runs Lox.run from the parsed statement list on: the resolver pass, *)
(* the had_error gate and Interpreter.interpret, the interpreter as a      *)
(* machine with an explicit stack of the Python frames that are waiting    *)
(* for a sub-evaluation.                                                   *)
(***************************************************************************)
EXTENDS Integers, Sequences, FiniteSets, TLC

VARIABLES
    \* Scanner (scanner.py:31-36)
    source, start, current, line, tokens,
    scanPc,             \* "scanning" | "returned" | "raised": where Scanner.scan is
    scanExc,            \* the Python exception that ended scan, "" when none
    \* Lox (lox.py:17-19)
    had_error, had_runtime_error,
    reports,            \* the diagnostics printed so far, in order
    \* Lox.run (lox.py:56-73)
    program,            \* statements: what Parser.parse returned
    phase,              \* "scan" | "parse" | "parsed" | "resolved" | "interpret" | "done" | "raised",
                        \* "prompt" | "exit" | "eof" in run_prompt, "environment" in
                        \* the calls of Environment.assign
    \* Lox.run_prompt (lox.py:45-54)
    stdin,              \* the lines input() has still to return
    \* Parser (parser.py:17-18)
    parser,             \* _current, and the calls of _declaration made so far
    \* Interpreter (interpreter.py:22-25)
    environment,        \* self._environment, a reference into envs
    locals,             \* self._locals: expression node -> distance
    \* The heap: Environment, LoxFunction, LoxClass, LoxInstance objects
    envs, funs, classes, instances,
    \* The Python stack of the interpreter
    ctrl,               \* what runs now: a call of _execute or _evaluate, or its outcome
    kont,               \* the frames waiting for it, innermost last
    output,             \* what print and println wrote to stdout, in order
    \* History
    evalLog,            \* the expressions _evaluate was called on, in order
    lastExit            \* the last return of execute_block: how, from which frame, to which

scanVars == <<source, start, current, line, tokens, scanPc, scanExc>>
loxVars == <<had_error, had_runtime_error, reports>>
runVars == <<program, phase, stdin, parser>>
heapVars == <<envs, funs, classes, instances>>
interpVars == <<environment, locals, heapVars, ctrl, kont, output>>
histVars == <<evalLog, lastExit>>
vars == <<scanVars, loxVars, runVars, interpVars, histVars>>

----------------------------------------------------------------------------
\* Bounds of the model.

\* Longest source text the scanner is run on.
MaxSrcLen == 3

\* How deep a comparison of two objects may go before Python's stack is
\* used up (RecursionError).
MaxCompare == 4

\* Longest chain of frames Environment.assign is called on by itself.
MaxFrames == 3

----------------------------------------------------------------------------
\* Lox: the error sinks (lox.py:76-94).

\* Lox._report, reached through Lox.error_line: print and latch had_error.
ReportLine(rs, ln, msg) == Append(rs, [kind |-> "static", line |-> ln, where |-> "", msg |-> msg])

----------------------------------------------------------------------------
\* Scanner (scanner.py).

\* The characters sources are drawn from: one letter, one digit, the string
\* quote, the slash and star of comments, newline, blank, dot, '=' and '!'
\* (one-two character tokens) and '@', which starts no token.
Alphabet == {"a", "1", "\"", "/", "*", "\n", " ", ".", "=", "!", "@"}

\* The letters the words of the model are spelled with.
Letters ==
    {"a", "b", "c", "d", "e", "f", "h", "i", "k", "l", "n", "o", "p", "r", "s", "t", "u", "v", "w"}

\* str.isalpha and str.isnumeric on the alphabet ('\0' is neither).
IsAlpha(c) == c \in Letters
IsNumeric(c) == c \in {"1"}

\* Scanner._peek returns this past the end of the source.
NUL == "\\0"

Scanner_is_at_end(src, cur) == cur >= Len(src)

\* Scanner._peek (0-based current; TLA+ sequences are 1-based).
Scanner_peek(src, cur) == IF Scanner_is_at_end(src, cur) THEN NUL ELSE src[cur + 1]

Scanner_peek_next(src, cur) == IF cur + 1 >= Len(src) THEN NUL ELSE src[cur + 2]

\* source[a:b], Python's slice: SubSeq clamps the same way for a <= b.
Slice(src, a, b) == SubSeq(src, a + 1, IF b > Len(src) THEN Len(src) ELSE b)

\* Scanner._add_token: the token appended, lexeme source[start:current].
\* The fields are those the scanner passes: type, lexeme, literal, line.
Scanner_add_token(toks, src, st, cur, ln, type, literal) ==
    Append(toks, [type |-> type, lexeme |-> Slice(src, st, cur), literal |-> literal, line |-> ln])

\* The loop of Scanner._line_comment: advance to the next newline or the end.
RECURSIVE Scanner_line_comment(_, _)
Scanner_line_comment(src, cur) ==
    IF Scanner_peek(src, cur) # "\n" /\ ~Scanner_is_at_end(src, cur)
    THEN Scanner_line_comment(src, cur + 1)
    ELSE cur

\* The loop of Scanner._identifier: advance over letters.
RECURSIVE SkipAlpha(_, _)
SkipAlpha(src, cur) ==
    IF IsAlpha(Scanner_peek(src, cur)) THEN SkipAlpha(src, cur + 1) ELSE cur

\* Scanner._KEYWORDS (scanner.py:12-29): the sixteen entries of the dict.
KEYWORDS ==
    (<<"a", "n", "d">> :> "AND")
    @@ (<<"c", "l", "a", "s", "s">> :> "CLASS")
    @@ (<<"e", "l", "s", "e">> :> "ELSE")
    @@ (<<"f", "a", "l", "s", "e">> :> "FALSE")
    @@ (<<"f", "o", "r">> :> "FOR")
    @@ (<<"f", "u", "n">> :> "FUN")
    @@ (<<"i", "f">> :> "IF")
    @@ (<<"n", "i", "l">> :> "NIL")
    @@ (<<"o", "r">> :> "OR")
    @@ (<<"p", "r", "i", "n", "t">> :> "PRINT")
    @@ (<<"r", "e", "t", "u", "r", "n">> :> "RETURN")
    @@ (<<"s", "u", "p", "e", "r">> :> "SUPER")
    @@ (<<"t", "h", "i", "s">> :> "THIS")
    @@ (<<"t", "r", "u", "e">> :> "TRUE")
    @@ (<<"v", "a", "r">> :> "VAR")
    @@ (<<"w", "h", "i", "l", "e">> :> "WHILE")

\* Scanner._KEYWORDS.get(text) or TokenType.IDENTIFIER
Scanner_KEYWORDS(text) == IF text \in DOMAIN KEYWORDS THEN KEYWORDS[text] ELSE "IDENTIFIER"

\* The loops of Scanner._number: advance over digits.
RECURSIVE SkipNumeric(_, _)
SkipNumeric(src, cur) ==
    IF IsNumeric(Scanner_peek(src, cur)) THEN SkipNumeric(src, cur + 1) ELSE cur

\* Scanner._number: the position after the integer and the optional decimal part.
Scanner_number(src, cur) ==
    LET i == SkipNumeric(src, cur)
    IN  IF Scanner_peek(src, i) = "." /\ IsNumeric(Scanner_peek_next(src, i))
        THEN SkipNumeric(src, i + 1)
        ELSE i

\* float(text) for a text of digits with at most one dot: the digits read as
\* a decimal integer, and the count of digits after the dot.
RECURSIVE DigitsValue(_)
DigitsValue(text) ==
    IF text = <<>> THEN 0
    ELSE LET n == Len(text)
             d == IF text[n] = "1" THEN 1 ELSE 0
         IN  IF text[n] = "." THEN DigitsValue(SubSeq(text, 1, n - 1))
             ELSE 10 * DigitsValue(SubSeq(text, 1, n - 1)) + d

RECURSIVE FractionDigits(_)
FractionDigits(text) ==
    IF text = <<>> THEN 0
    ELSE IF text[Len(text)] = "." THEN 0
    ELSE IF \E i \in 1..Len(text) : text[i] = "."
         THEN 1 + FractionDigits(SubSeq(text, 1, Len(text) - 1))
         ELSE 0

Float(text) == [kind |-> "float", mantissa |-> DigitsValue(text), scale |-> FractionDigits(text)]

\* The literal payloads of a token: None, and the text of a string.
NoLiteral == [kind |-> "None"]
StrLiteral(text) == [kind |-> "str", text |-> text]

\* The loop of Scanner._string.  In `while c := self._peek() != '"' and not
\* self._is_at_end` the walrus binds c to the whole condition, a bool, so
\* `c == '\n'` is False on every turn and the line is never incremented:
\* the loop only advances to the closing quote or the end.
RECURSIVE Scanner_string_loop(_, _)
Scanner_string_loop(src, cur) ==
    IF Scanner_peek(src, cur) # "\"" /\ ~Scanner_is_at_end(src, cur)
    THEN Scanner_string_loop(src, cur + 1)
    ELSE cur

\* How many newline characters src holds from place from + 1 to place to.
Newlines(src, from, to) == Cardinality({i \in (from + 1)..to : i <= Len(src) /\ src[i] = "\n"})

\* Scanner_string_line as its loop is meant: the newlines it passes counted.
Scanner_string_line_counted(src, cur, cur2, ln) == ln + Newlines(src, cur, cur2)

\* self._line after the loop of Scanner._string, which ran from cur to cur2:
\* `c == '\n'` is never true, so the line is the one the string opened on.
Scanner_string_line(src, cur, cur2, ln) == ln

\* Whether the self._advance() after the loop of Scanner._string returns:
\* _advance indexes source[current - 1] after incrementing current, which
\* raises IndexError when the loop stopped at the end of the source.
Scanner_string_advance_ok(src, cur) == cur + 1 <= Len(src)

\* The one character tokens of the sources and the prompt lines of the model
\* (scanner.py:66-75).
OneCharType == ("." :> "DOT") @@ (";" :> "SEMICOLON") @@ ("*" :> "STAR")

\* The one-two character tokens: the type with and without a following '='.
TwoCharType(c, matched) ==
    CASE c = "!" -> IF matched THEN "BANG_EQUAL" ELSE "BANG"
      [] c = "=" -> IF matched THEN "EQUAL_EQUAL" ELSE "EQUAL"

\* Scanner._match.
Scanner_match(src, cur, expected) == ~Scanner_is_at_end(src, cur) /\ src[cur + 1] = expected

\* One turn of the loop of Scanner.scan: start = current, then _scan_token.
Scanner_scan_token ==
    /\ scanPc = "scanning"
    /\ ~Scanner_is_at_end(source, current)
    /\ LET st == current
           c == source[current + 1]         \* c = self._advance()
           cur == current + 1
       IN
       /\ start' = st
       /\ CASE c \in DOMAIN OneCharType ->
                /\ tokens' = Scanner_add_token(tokens, source, st, cur, line, OneCharType[c], NoLiteral)
                /\ current' = cur
                /\ UNCHANGED <<line, scanPc, scanExc, had_error, reports>>
            [] c \in {"!", "="} ->
                LET m == Scanner_match(source, cur, "=")
                    cur2 == IF m THEN cur + 1 ELSE cur
                IN  /\ tokens' = Scanner_add_token(tokens, source, st, cur2, line,
                                                   TwoCharType(c, m), NoLiteral)
                    /\ current' = cur2
                    /\ UNCHANGED <<line, scanPc, scanExc, had_error, reports>>
            [] c = "/" ->
                IF Scanner_match(source, cur, "/")
                THEN /\ current' = Scanner_line_comment(source, cur + 1)
                     /\ UNCHANGED <<tokens, line, scanPc, scanExc, had_error, reports>>
                ELSE IF Scanner_match(source, cur, "*")
                THEN \* raise NotImplementedError('Block comments not yet supported.')
                     /\ current' = cur + 1
                     /\ scanPc' = "raised"
                     /\ scanExc' = "NotImplementedError"
                     /\ UNCHANGED <<tokens, line, had_error, reports>>
                ELSE /\ tokens' = Scanner_add_token(tokens, source, st, cur, line, "SLASH", NoLiteral)
                     /\ current' = cur
                     /\ UNCHANGED <<line, scanPc, scanExc, had_error, reports>>
            [] c = " " ->
                /\ current' = cur
                /\ UNCHANGED <<tokens, line, scanPc, scanExc, had_error, reports>>
            [] c = "\n" ->
                /\ current' = cur
                /\ line' = line + 1
                /\ UNCHANGED <<tokens, scanPc, scanExc, had_error, reports>>
            [] IsAlpha(c) ->
                LET cur2 == SkipAlpha(source, cur)
                IN  /\ tokens' = Scanner_add_token(tokens, source, st, cur2, line,
                                                   Scanner_KEYWORDS(Slice(source, st, cur2)), NoLiteral)
                    /\ current' = cur2
                    /\ UNCHANGED <<line, scanPc, scanExc, had_error, reports>>
            [] IsNumeric(c) ->
                LET cur2 == Scanner_number(source, cur)
                IN  /\ tokens' = Scanner_add_token(tokens, source, st, cur2, line, "NUMBER",
                                                   Float(Slice(source, st, cur2)))
                    /\ current' = cur2
                    /\ UNCHANGED <<line, scanPc, scanExc, had_error, reports>>
            [] c = "\"" ->
                LET cur2 == Scanner_string_loop(source, cur)
                    unterminated == Scanner_is_at_end(source, cur2)
                    ln == Scanner_string_line(source, cur, cur2, line)
                IN  /\ line' = ln
                    /\ had_error' = (had_error \/ unterminated)
                    /\ reports' = IF unterminated
                                  THEN ReportLine(reports, ln, "Unterminated string.")
                                  ELSE reports
                    /\ current' = cur2 + 1
                    /\ IF Scanner_string_advance_ok(source, cur2)
                       THEN /\ tokens' = Scanner_add_token(tokens, source, st, cur2 + 1, ln, "STRING",
                                                           StrLiteral(Slice(source, st + 1, cur2)))
                            /\ UNCHANGED <<scanPc, scanExc>>
                       ELSE /\ scanPc' = "raised"
                            /\ scanExc' = "IndexError"
                            /\ UNCHANGED tokens
            [] OTHER ->
                /\ current' = cur
                /\ had_error' = TRUE
                /\ reports' = ReportLine(reports, line, "Unexpected character, " \o c \o ".")
                /\ UNCHANGED <<tokens, line, scanPc, scanExc>>
    /\ UNCHANGED <<source, had_runtime_error, runVars, interpVars, histVars>>

\* The end of Scanner.scan: the loop is over, EOF is added, the tokens returned.
Scanner_scan_return ==
    /\ scanPc = "scanning"
    /\ Scanner_is_at_end(source, current)
    /\ tokens' = Scanner_add_token(tokens, source, start, current, line, "EOF", NoLiteral)
    /\ scanPc' = "returned"
    /\ UNCHANGED <<source, start, current, line, scanExc, loxVars, runVars, interpVars, histVars>>

\* The source texts: every sequence over Alphabet of length 0..MaxSrcLen.
Sources == UNION {[1..n -> Alphabet] : n \in 0..MaxSrcLen}

----------------------------------------------------------------------------
\* Tokens and the syntax tree (tokens.py, expr.py, stmt.py).

\* None, where the tree holds an optional expression or statement.
NoneNode == [node |-> "None"]

\* Token (tokens.py:67-73): _id, type, lexeme, line; the literal payload is
\* read by the parser only, which copies it into a Literal node.
Token(id, type, lexeme) == [id |-> id, type |-> type, lexeme |-> lexeme, line |-> 1]

Ident(id, lexeme) == Token(id, "IDENTIFIER", lexeme)

\* Expression nodes (expr.py:52-123; Call, Get, Set, This and Super as the
\* parser builds them, parser.py:188, 289, 307, 309, 370).
Literal(value) == [node |-> "Literal", value |-> value]
Variable(name) == [node |-> "Variable", name |-> name]
Assign(name, value) == [node |-> "Assign", name |-> name, value |-> value]
Binary(left, operator, right) == [node |-> "Binary", left |-> left, operator |-> operator, right |-> right]
Logical(left, operator, right) == [node |-> "Logical", left |-> left, operator |-> operator, right |-> right]
Call(callee, paren, arguments) == [node |-> "Call", callee |-> callee, paren |-> paren, arguments |-> arguments]
Get(object, name) == [node |-> "Get", object |-> object, name |-> name]
Set(object, name, value) == [node |-> "Set", object |-> object, name |-> name, value |-> value]
This(keyword) == [node |-> "This", keyword |-> keyword]
Super(keyword, method) == [node |-> "Super", keyword |-> keyword, method |-> method]

\* Statement nodes (stmt.py:56-129; Class as the parser builds it, parser.py:57).
Block(statements) == [node |-> "Block", statements |-> statements]
Break(keyword) == [node |-> "Break", keyword |-> keyword]
Continue(keyword) == [node |-> "Continue", keyword |-> keyword]
Expression(expression) == [node |-> "Expression", expression |-> expression]
Function(name, parameters, body) == [node |-> "Function", name |-> name, parameters |-> parameters, body |-> body]
If(condition, then_branch, else_branch) == [node |-> "If", condition |-> condition, then_branch |-> then_branch, else_branch |-> else_branch]
Return(keyword, value) == [node |-> "Return", keyword |-> keyword, value |-> value]
Var(name, initializer) == [node |-> "Var", name |-> name, initializer |-> initializer]
While(condition, body) == [node |-> "While", condition |-> condition, body |-> body]
Class(name, superclass, methods) == [node |-> "Class", name |-> name, superclass |-> superclass, methods |-> methods]

----------------------------------------------------------------------------
\* Runtime values (type.py:5): None, bool, float, str, callables, instances.
\* Functions, classes and instances are references into the heaps funs,
\* classes and instances, so that two values are the same object exactly
\* when their references are equal.

Nil == [t |-> "nil"]
Bool(b) == [t |-> "bool", v |-> b]
Num(n) == [t |-> "num", v |-> n]
Str(s) == [t |-> "str", v |-> s]
FunRef(r) == [t |-> "fun", ref |-> r]
ClassRef(r) == [t |-> "class", ref |-> r]
InstRef(r) == [t |-> "inst", ref |-> r]
Native(name) == [t |-> "native", name |-> name]

\* An empty dict.
EmptyDict == <<>>

\* d[k] = v on a dict.
DictSet(d, k, v) == (k :> v) @@ d

----------------------------------------------------------------------------
\* Resolver (resolver.py).  The pass is a function of the statement list and
\* of the interpreter's _locals table; rs is the Resolver object: _scopes,
\* _loop_depth, _current_function, _current_class, together with the table
\* (Interpreter._locals) and the diagnostics it has reported.

\* Lox.error_token -> Lox._report (lox.py:79-94): the diagnostic printed.
ReportToken(rs, token, msg) ==
    Append(rs, [kind |-> "static", line |-> token.line, where |-> token.lexeme, msg |-> msg])

ResolverError(rs, token, msg) == [rs EXCEPT !.errors = ReportToken(@, token, msg)]

\* Resolver.__init__.
Resolver_init(table) ==
    [scopes |-> <<>>, loop_depth |-> 0, current_function |-> "NONE",
     current_class |-> "NONE", locals |-> table, errors |-> <<>>]

Resolver_begin_scope(rs) == [rs EXCEPT !.scopes = Append(@, EmptyDict)]

Resolver_end_scope(rs) == [rs EXCEPT !.scopes = SubSeq(@, 1, Len(@) - 1)]

\* self._scopes[-1][key] = flag
ScopeSet(rs, key, flag) == [rs EXCEPT !.scopes[Len(rs.scopes)] = DictSet(@, key, flag)]

Resolver_declare(rs, name) ==
    IF Len(rs.scopes) = 0 THEN rs
    ELSE LET rs1 == IF name.lexeme \in DOMAIN rs.scopes[Len(rs.scopes)]
                    THEN ResolverError(rs, name, "Already variable with this name in this scope.")
                    ELSE rs
         IN  ScopeSet(rs1, name.lexeme, FALSE)

Resolver_define(rs, name) ==
    IF Len(rs.scopes) = 0 THEN rs ELSE ScopeSet(rs, name.lexeme, TRUE)

\* Interpreter.resolve: self._locals[expr] = depth.  The key is the
\* expression node, compared as the frozen dataclass compares: field by field.
Interpreter_resolve(table, expr, depth) == DictSet(table, expr, depth)

\* Resolver._resolve_local: the innermost scope that holds the name, declared
\* or defined, gives the distance; no scope holds it: no entry.
Resolver_resolve_local(rs, expr, name) ==
    LET n == Len(rs.scopes)
        hits == {idx \in 0..(n - 1) : name.lexeme \in DOMAIN rs.scopes[n - idx]}
    IN  IF hits = {} THEN rs
        ELSE [rs EXCEPT !.locals = Interpreter_resolve(@, expr,
                                       CHOOSE idx \in hits : \A j \in hits : idx <= j)]

\* A mutant of FunctionLoopDepth: the body is resolved at the loop depth of
\* the place the function is declared in.
FunctionLoopDepthKept(enclosing_loop_depth) == enclosing_loop_depth

\* What Resolver._resolve_function sets _loop_depth to for the body.
FunctionLoopDepth(enclosing_loop_depth) == 0

\* The _current_function values under which Resolver.visit_return_stmt
\* reports no "Can't return from top-level code."
ReturnAllowed == {"FUNCTION", "METHOD"}

\* The resolver is through with a node before it goes on to the next: rs is
\* the Resolver after the node, a state in which _loop_depth is no less than 0.
Resolved(rs) == rs.loop_depth >= 0

RECURSIVE ResolveExpr(_, _)
RECURSIVE ResolveExprs(_, _)
RECURSIVE ResolveStmt(_, _)
RECURSIVE ResolveStmts(_, _)
RECURSIVE Resolver_resolve_function(_, _, _)
RECURSIVE ResolveMethods(_, _)

\* Resolver.visit_*_expr.
ResolveExpr(e, rs) ==
    CASE e.node = "Assign" -> Resolver_resolve_local(ResolveExpr(e.value, rs), e, e.name)
      [] e.node \in {"Binary", "Logical"} -> ResolveExpr(e.right, ResolveExpr(e.left, rs))
      [] e.node = "Call" -> ResolveExprs(e.arguments, ResolveExpr(e.callee, rs))
      [] e.node = "Get" -> ResolveExpr(e.object, rs)
      [] e.node = "Literal" -> rs
      [] e.node = "Set" -> ResolveExpr(e.value, ResolveExpr(e.object, rs))
      [] e.node = "Super" ->
            LET rs1 == IF rs.current_class = "NONE"
                       THEN ResolverError(rs, e.keyword, "Can't use 'super' outside of a class.")
                       ELSE IF rs.current_class # "SUBCLASS"
                       THEN ResolverError(rs, e.keyword, "Can't use 'super' in a class with no superclass.")
                       ELSE rs
            IN  Resolver_resolve_local(rs1, e, e.keyword)
      [] e.node = "This" ->
            IF rs.current_class = "NONE"
            THEN ResolverError(rs, e.keyword, "Can't use 'this' outside of a class.")
            ELSE Resolver_resolve_local(rs, e, e.keyword)
      [] e.node = "Variable" -> Resolver_resolve_local(rs, e, e.name)

ResolveExprs(es, rs) ==
    IF es = <<>> THEN rs
    ELSE LET rs1 == ResolveExpr(Head(es), rs)
         IN  IF Resolved(rs1) THEN ResolveExprs(Tail(es), rs1) ELSE rs1

\* Resolver._resolve_function.
Resolver_resolve_function(func, func_type, rs) ==
    LET rs1 == [rs EXCEPT !.current_function = func_type,
                          !.loop_depth = FunctionLoopDepth(rs.loop_depth)]
        rs2 == Resolver_begin_scope(rs1)
        Params[i \in 0..Len(func.parameters)] ==
            IF i = 0 THEN rs2
            ELSE Resolver_define(Resolver_declare(Params[i - 1], func.parameters[i]), func.parameters[i])
        rs3 == Resolver_begin_scope(Params[Len(func.parameters)])
        rs4 == Resolver_end_scope(Resolver_end_scope(ResolveStmts(func.body, rs3)))
    IN  [rs4 EXCEPT !.current_function = rs.current_function, !.loop_depth = rs.loop_depth]

\* The loop over stmt.methods of Resolver.visit_class_stmt.
ResolveMethods(methods, rs) ==
    IF methods = <<>> THEN rs
    ELSE LET method == Head(methods)
             declaration == IF method.name.lexeme = "init" THEN "INITIALIZER" ELSE "METHOD"
             rs1 == Resolver_resolve_function(method, declaration, rs)
         IN  IF Resolved(rs1) THEN ResolveMethods(Tail(methods), rs1) ELSE rs1

\* Resolver.visit_*_stmt.
ResolveStmt(s, rs) ==
    CASE s.node = "Block" ->
            Resolver_end_scope(ResolveStmts(s.statements, Resolver_begin_scope(rs)))
      [] s.node = "Break" ->
            IF rs.loop_depth = 0
            THEN ResolverError(rs, s.keyword, "Can't break from outside of loop.")
            ELSE rs
      [] s.node = "Class" ->
            LET has_super == s.superclass # NoneNode
                rs1 == Resolver_define(Resolver_declare([rs EXCEPT !.current_class = "CLASS"], s.name), s.name)
                rs2 == IF has_super /\ s.name.lexeme = s.superclass.name.lexeme
                       THEN ResolverError(rs1, s.superclass.name, "A class can't inherit from itself.")
                       ELSE rs1
                rs3 == IF has_super
                       THEN ScopeSet(Resolver_begin_scope(
                                ResolveExpr(s.superclass, [rs2 EXCEPT !.current_class = "SUBCLASS"])),
                                "super", TRUE)
                       ELSE rs2
                rs4 == ScopeSet(Resolver_begin_scope(rs3), "this", TRUE)
                rs5 == Resolver_end_scope(ResolveMethods(s.methods, rs4))
                rs6 == IF has_super THEN Resolver_end_scope(rs5) ELSE rs5
            IN  [rs6 EXCEPT !.current_class = rs.current_class]
      [] s.node = "Continue" ->
            IF rs.loop_depth = 0
            THEN ResolverError(rs, s.keyword, "Can't continue from outside of loop.")
            ELSE rs
      [] s.node = "Expression" -> ResolveExpr(s.expression, rs)
      [] s.node = "Function" ->
            Resolver_resolve_function(s, "FUNCTION", Resolver_define(Resolver_declare(rs, s.name), s.name))
      [] s.node = "If" ->
            LET rs1 == ResolveStmt(s.then_branch, ResolveExpr(s.condition, rs))
            IN  IF s.else_branch # NoneNode THEN ResolveStmt(s.else_branch, rs1) ELSE rs1
      [] s.node = "Return" ->
            LET rs1 == IF rs.current_function \notin ReturnAllowed
                       THEN ResolverError(rs, s.keyword, "Can't return from top-level code.")
                       ELSE rs
            IN  IF s.value # NoneNode
                THEN ResolveExpr(s.value,
                        IF rs1.current_function = "INITIALIZER"
                        THEN ResolverError(rs1, s.keyword, "Can't return a value from an initializer.")
                        ELSE rs1)
                ELSE rs1
      [] s.node = "Var" ->
            LET rs1 == Resolver_declare(rs, s.name)
            IN  IF s.initializer # NoneNode
                THEN Resolver_define(ResolveExpr(s.initializer, rs1), s.name)
                ELSE rs1
      [] s.node = "While" ->
            LET rs1 == ResolveStmt(s.body, ResolveExpr(s.condition, [rs EXCEPT !.loop_depth = @ + 1]))
            IN  [rs1 EXCEPT !.loop_depth = @ - 1]

\* Resolver.resolve on a list of statements.
ResolveStmts(stmts, rs) ==
    IF stmts = <<>> THEN rs
    ELSE LET rs1 == ResolveStmt(Head(stmts), rs)
         IN  IF Resolved(rs1) THEN ResolveStmts(Tail(stmts), rs1) ELSE rs1

----------------------------------------------------------------------------
\* Parser (parser.py).  The parser is a state [cur, errs, calls]: _current,
\* the diagnostics it has reported, and the calls of _declaration it has
\* finished.  Every method takes the token list T and a state, and gives the
\* state after it together with ok, FALSE when it raised _ParseError, and v,
\* what it returned.

\* The text of a lexeme.
RECURSIVE Text(_)
Text(chars) == IF chars = <<>> THEN "" ELSE Head(chars) \o Text(Tail(chars))

\* float(text) as a runtime value.
NumberValue(literal) ==
    IF literal.scale = 0 THEN Num(literal.mantissa)
    ELSE [t |-> "num", v |-> literal.mantissa, scale |-> literal.scale]

\* The tokens as the parser holds them: the token at place i of the list that
\* Scanner.scan returned has the _id base + i.
ParserTokens(toks, base) ==
    [i \in 1..Len(toks) |->
        [id |-> base + i, type |-> toks[i].type, lexeme |-> Text(toks[i].lexeme),
         literal |-> toks[i].literal, line |-> toks[i].line]]

\* The token at place i as the nodes of the tree hold it.
TokenAt(T, i) == [id |-> T[i].id, type |-> T[i].type, lexeme |-> T[i].lexeme, line |-> T[i].line]

\* The variable parser when a Parser is made: _current, and no call of
\* _declaration so far.
ParserIdle == [current |-> 0, calls |-> <<>>]

\* Parser.__init__.
Parser_init == [ok |-> TRUE, v |-> NoneNode, cur |-> 0, errs |-> <<>>, calls |-> <<>>]

\* A method returns v.
Returns(p, v) == [p EXCEPT !.ok = TRUE, !.v = v]

\* Parser._error: the diagnostic of Lox.error_token.
Parser_error(T, p, i, msg) == [p EXCEPT !.errs = ReportToken(@, TokenAt(T, i), msg)]

\* `raise self._error(token, msg)`.
Raises(T, p, i, msg) == [Parser_error(T, p, i, msg) EXCEPT !.ok = FALSE, !.v = NoneNode]

\* A call whose value is not used: the method goes on with v when the call
\* returned, and is left when it raised.
Parser_kept(v, r) == IF r.ok THEN Returns(r, v) ELSE r

\* A call whose value is kept after the values before it.
Parser_gather(before, r) == IF r.ok THEN Returns(r, Append(before, r.v)) ELSE r

\* Parser._peek, Parser._is_at_end, Parser._check (for any of the types),
\* Parser._advance; the place of Parser._previous, which for _current = 0 is
\* the last token of the list (self._tokens[-1]).  No type that is matched
\* or checked is EOF, so _match(type) on a list that ends in EOF is the test
\* whether _peek() has the type.
Parser_peek(T, p) == T[p.cur + 1]
Parser_is_at_end(T, p) == Parser_peek(T, p).type = "EOF"
Parser_check(T, p, types) == ~Parser_is_at_end(T, p) /\ Parser_peek(T, p).type \in types
Parser_advance(T, p) == IF Parser_is_at_end(T, p) THEN p ELSE [p EXCEPT !.cur = @ + 1]
Parser_previous(T, p) == IF p.cur = 0 THEN Len(T) ELSE p.cur

\* Parser._consume: the token, or the error at the next token.
Parser_consume(T, p, type, msg) ==
    IF Parser_peek(T, p).type = type /\ type # "EOF"
    THEN [p EXCEPT !.ok = TRUE, !.v = TokenAt(T, p.cur + 1), !.cur = @ + 1]
    ELSE Raises(T, p, p.cur + 1, msg)

\* The most arguments of a call and parameters of a declaration.
MaxArguments == 255

\* The token types the loop of each left-associative level matches.  The
\* loop of _logical_and matches TokenType.OR.
MatchTypes ==
    [sequence |-> {"COMMA"},
     logical_or |-> {"OR"},
     logical_and |-> {"OR"},
     equality |-> {"BANG_EQUAL", "EQUAL_EQUAL"},
     comparison |-> {"GREATER", "GREATER_EQUAL", "LESS", "LESS_EQUAL"},
     term |-> {"MINUS", "PLUS"},
     factor |-> {"SLASH", "STAR"}]

\* The node a left-associative level builds.
LevelNode(level, left, op, right) ==
    IF level \in {"logical_or", "logical_and"} THEN Logical(left, op, right) ELSE Binary(left, op, right)

\* expr.py:71-112.
Grouping(expression) == [node |-> "Grouping", expression |-> expression]
Ternary(left, op1, center, op2, right) ==
    [node |-> "Ternary", left |-> left, op1 |-> op1, center |-> center, op2 |-> op2, right |-> right]
Unary(op, right) == [node |-> "Unary", op |-> op, right |-> right]

\* self._<method>(): a method of the parser, called by its name.
RECURSIVE Parser_method(_, _, _)
RECURSIVE Parser_loop(_, _, _)
RECURSIVE Parser_arguments(_, _)
RECURSIVE Parser_call_loop(_, _)

\* The operand of a level: the method of the next tighter level.
Parser_operand(T, p, level) ==
    CASE level = "sequence" -> Parser_method(T, p, "assignment")
      [] level = "logical_or" -> Parser_method(T, p, "logical_and")
      [] level = "logical_and" -> Parser_method(T, p, "equality")
      [] level = "equality" -> Parser_method(T, p, "comparison")
      [] level = "comparison" -> Parser_method(T, p, "term")
      [] level = "term" -> Parser_method(T, p, "factor")
      [] level = "factor" -> Parser_method(T, p, "unary")

\* `expr = Binary(expr, op, right)`, or Logical, when right was parsed.
Parser_operated(T, left, level, right) ==
    IF right.ok THEN Returns(right, LevelNode(level, left.v, TokenAt(T, left.cur + 1), right.v))
    ELSE right

\* `while self._match(...): op = self._previous; right = ...; expr = ...`
\* of a level, after its first operand.
Parser_loop(T, left, level) ==
    IF left.ok
    THEN IF Parser_peek(T, left).type \in MatchTypes[level]
         THEN Parser_loop(T, Parser_operated(T, left, level,
                                             Parser_operand(T, Parser_advance(T, left), level)),
                          level)
         ELSE left
    ELSE left

\* Parser._sequence, which is all of Parser._expression, to Parser._factor.
Parser_sequence(T, p) == Parser_loop(T, Parser_method(T, p, "assignment"), "sequence")
Parser_logical_or(T, p) == Parser_loop(T, Parser_method(T, p, "logical_and"), "logical_or")
Parser_logical_and(T, p) == Parser_loop(T, Parser_method(T, p, "equality"), "logical_and")
Parser_equality(T, p) == Parser_loop(T, Parser_method(T, p, "comparison"), "equality")
Parser_comparison(T, p) == Parser_loop(T, Parser_method(T, p, "term"), "comparison")
Parser_term(T, p) == Parser_loop(T, Parser_method(T, p, "factor"), "term")
Parser_factor(T, p) == Parser_loop(T, Parser_method(T, p, "unary"), "factor")

\* Parser._assignment after `value = self._assignment()`.
Parser_assigned(T, expr, value) ==
    IF value.ok
    THEN CASE expr.v.node = "Variable" -> Returns(value, Assign(expr.v.name, value.v))
           [] expr.v.node = "Get" -> Returns(value, Set(expr.v.object, expr.v.name, value.v))
           [] OTHER -> Returns(Parser_error(T, value, expr.cur + 1, "Invalid assignment target."),
                               expr.v)
    ELSE value

\* Parser._assignment after `expr = self._ternary()`.
Parser_assignment_rest(T, expr) ==
    IF expr.ok
    THEN IF Parser_peek(T, expr).type = "EQUAL"
         THEN Parser_assigned(T, expr, Parser_method(T, Parser_advance(T, expr), "assignment"))
         ELSE expr
    ELSE expr

\* Parser._assignment.
Parser_assignment(T, p) == Parser_assignment_rest(T, Parser_method(T, p, "ternary"))

\* Parser._ternary after `true_expr = self._ternary()`.
Parser_ternary_branches(T, expr, true_expr) ==
    IF true_expr.ok
    THEN LET op2 == Parser_consume(T, true_expr, "COLON", "Expect ':' following '?'.")
         IN  IF op2.ok
             THEN LET false_expr == Parser_method(T, op2, "ternary")
                  IN  IF false_expr.ok
                      THEN Returns(false_expr, Ternary(expr.v, TokenAt(T, expr.cur + 1), true_expr.v,
                                                       op2.v, false_expr.v))
                      ELSE false_expr
             ELSE op2
    ELSE true_expr

\* Parser._ternary after `expr = self._logical_or()`.
Parser_ternary_rest(T, expr) ==
    IF expr.ok
    THEN IF Parser_peek(T, expr).type = "QUESTION"
         THEN Parser_ternary_branches(T, expr, Parser_method(T, Parser_advance(T, expr), "ternary"))
         ELSE expr
    ELSE expr

\* Parser._ternary.
Parser_ternary(T, p) == Parser_ternary_rest(T, Parser_method(T, p, "logical_or"))

\* The token types Parser._unary takes as operators, and the ones it takes
\* to raise an error after their operand.
UnaryTypes == {"BANG", "MINUS"}
UnaryErrorTypes ==
    {"EQUAL", "BANG_EQUAL", "EQUAL_EQUAL", "GREATER", "GREATER_EQUAL", "LESS", "LESS_EQUAL",
     "PLUS", "SLASH", "STAR"}

\* The arms of Parser._unary that parse an operand and then raise: the
\* operand is parsed by this method.
UnaryErrorOperand(T, p, type) ==
    CASE type = "EQUAL" -> Parser_method(T, p, "assignment")
      [] type \in {"BANG_EQUAL", "EQUAL_EQUAL"} -> Parser_method(T, p, "comparison")
      [] type \in {"GREATER", "GREATER_EQUAL", "LESS", "LESS_EQUAL"} -> Parser_method(T, p, "term")
      [] type = "PLUS" -> Parser_method(T, p, "factor")
      [] type \in {"SLASH", "STAR"} -> Parser_method(T, p, "unary")

UnaryErrorMessage(type) ==
    CASE type = "EQUAL" -> "Nothing to assign to."
      [] type = "PLUS" -> "Unary '+' expressions are not supported."
      [] OTHER -> "Not a unary operator."

\* `raise self._error(op, ...)` after the operand of an error arm.
Parser_unary_raise(T, i, operand) ==
    IF operand.ok THEN Raises(T, operand, i, UnaryErrorMessage(T[i].type)) ELSE operand

\* `return ex.Unary(op, right)`.
Parser_unary_node(T, i, right) ==
    IF right.ok THEN Returns(right, Unary(TokenAt(T, i), right.v)) ELSE right

\* Parser._unary.
Parser_unary(T, p) ==
    CASE Parser_peek(T, p).type \in UnaryTypes ->
            Parser_unary_node(T, p.cur + 1, Parser_method(T, Parser_advance(T, p), "unary"))
      [] Parser_peek(T, p).type \in UnaryErrorTypes ->
            Parser_unary_raise(T, p.cur + 1,
                               UnaryErrorOperand(T, Parser_advance(T, p), Parser_peek(T, p).type))
      [] OTHER -> Parser_method(T, p, "call")

\* `arguments.append(self._expression())`.
Parser_argument(arguments, argument) ==
    IF argument.ok THEN Returns(argument, Append(arguments, argument.v)) ELSE argument

\* The check of the number of arguments before one more is parsed.
Parser_arguments_check(T, p) ==
    IF Len(p.v) >= MaxArguments
    THEN Parser_error(T, p, p.cur + 1, "Can't have more than 255 arguments.")
    ELSE p

\* Parser._finish_call after the first argument: the loop over the commas.
Parser_arguments(T, p) ==
    IF p.ok
    THEN IF Parser_peek(T, p).type = "COMMA"
         THEN Parser_arguments(T, Parser_argument(p.v, Parser_method(T,
                                        Parser_arguments_check(T, Parser_advance(T, p)), "sequence")))
         ELSE p
    ELSE p

\* Parser._finish_call after the arguments.
Parser_finish_call_paren(T, callee, arguments) ==
    IF arguments.ok
    THEN LET paren == Parser_consume(T, arguments, "RIGHT_PAREN", "Expect ')' after arguments.")
         IN  IF paren.ok THEN Returns(paren, Call(callee, paren.v, arguments.v)) ELSE paren
    ELSE arguments

\* Parser._finish_call.
Parser_finish_call(T, p, callee) ==
    Parser_finish_call_paren(T, callee,
        IF Parser_peek(T, p).type = "RIGHT_PAREN" THEN Returns(p, <<>>)
        ELSE Parser_arguments(T, Parser_argument(<<>>, Parser_method(T, p, "sequence"))))

\* `expr = ex.Get(expr, name)`.
Parser_get(object, name) ==
    IF name.ok THEN Returns(name, Get(object, name.v)) ELSE name

\* The loop of Parser._call.
Parser_call_loop(T, expr) ==
    IF expr.ok
    THEN CASE Parser_peek(T, expr).type = "LEFT_PAREN" ->
                Parser_call_loop(T, Parser_finish_call(T, Parser_advance(T, expr), expr.v))
           [] Parser_peek(T, expr).type = "DOT" ->
                Parser_call_loop(T, Parser_get(expr.v,
                    Parser_consume(T, Parser_advance(T, expr), "IDENTIFIER",
                                   "Expect property name after '.'.")))
           [] OTHER -> expr
    ELSE expr

\* Parser._call.
Parser_call(T, p) == Parser_call_loop(T, Parser_method(T, p, "primary"))

\* `return ex.Super(keyword, method)` after the keyword at place i.
Parser_super(T, i, dot) ==
    IF dot.ok
    THEN LET method == Parser_consume(T, dot, "IDENTIFIER", "Expect superclass method name.")
         IN  IF method.ok THEN Returns(method, Super(TokenAt(T, i), method.v)) ELSE method
    ELSE dot

\* `return ex.Grouping(expr)`.
Parser_grouping(T, expr) ==
    IF expr.ok
    THEN Parser_kept(Grouping(expr.v),
                     Parser_consume(T, expr, "RIGHT_PAREN", "Expect ')' after expression."))
    ELSE expr

\* The literal of a token as a runtime value.
LiteralValue(token) ==
    CASE token.type = "FALSE" -> Bool(FALSE)
      [] token.type = "TRUE" -> Bool(TRUE)
      [] token.type = "NIL" -> Nil
      [] token.type = "NUMBER" -> NumberValue(token.literal)
      [] token.type = "STRING" -> Str(Text(token.literal.text))

\* Parser._primary.
Parser_primary(T, p) ==
    CASE Parser_peek(T, p).type = "IDENTIFIER" ->
            [p EXCEPT !.ok = TRUE, !.v = Variable(TokenAt(T, p.cur + 1)), !.cur = @ + 1]
      [] Parser_peek(T, p).type \in {"FALSE", "TRUE", "NIL", "NUMBER", "STRING"} ->
            [p EXCEPT !.ok = TRUE, !.v = Literal(LiteralValue(Parser_peek(T, p))), !.cur = @ + 1]
      [] Parser_peek(T, p).type = "THIS" ->
            [p EXCEPT !.ok = TRUE, !.v = This(TokenAt(T, p.cur + 1)), !.cur = @ + 1]
      [] Parser_peek(T, p).type = "SUPER" ->
            Parser_super(T, p.cur + 1,
                         Parser_consume(T, Parser_advance(T, p), "DOT", "Expect a '.' after 'super'."))
      [] Parser_peek(T, p).type = "LEFT_PAREN" ->
            Parser_grouping(T, Parser_method(T, Parser_advance(T, p), "sequence"))
      [] OTHER -> Raises(T, p, p.cur + 1, "Expect expression.")

RECURSIVE Parser_block_loop(_, _)
RECURSIVE Parser_methods(_, _)
RECURSIVE Parser_synchronize_loop(_, _)
RECURSIVE Parser_parameters(_, _)

\* Parser._expression_statement after `value = self._expression()`.
Parser_expression_end(T, value) ==
    IF value.ok
    THEN Parser_kept(Expression(value.v),
                     Parser_consume(T, value, "SEMICOLON", "Expect a ';' after expression."))
    ELSE value

\* Parser._expression_statement.
Parser_expression_statement(T, p) == Parser_expression_end(T, Parser_method(T, p, "sequence"))

\* Parser._variable_declaration after the initializer.
Parser_variable_end(T, name, initializer) ==
    IF initializer.ok
    THEN Parser_kept(Var(name, initializer.v),
                     Parser_consume(T, initializer, "SEMICOLON", "Expect ';' after variable declaration."))
    ELSE initializer

\* Parser._variable_declaration after the name.
Parser_variable_initializer(T, name) ==
    IF name.ok
    THEN Parser_variable_end(T, name.v,
                             IF Parser_peek(T, name).type = "EQUAL"
                             THEN Parser_method(T, Parser_advance(T, name), "sequence")
                             ELSE Returns(name, NoneNode))
    ELSE name

\* Parser._variable_declaration.
Parser_variable_declaration(T, p) ==
    Parser_variable_initializer(T, Parser_consume(T, p, "IDENTIFIER", "Expect variable name."))

\* Parser._break_statement and Parser._continue_statement, after the keyword
\* at place i.
Parser_break_statement(T, p, i) ==
    Parser_kept(Break(TokenAt(T, i)),
                Parser_consume(T, p, "SEMICOLON", "Expect ';' after continue value."))

Parser_continue_statement(T, p, i) ==
    Parser_kept(Continue(TokenAt(T, i)),
                Parser_consume(T, p, "SEMICOLON", "Expect ';' after continue value."))

\* Parser._return_statement after the value, the keyword at place i.
Parser_return_end(T, i, value) ==
    IF value.ok
    THEN Parser_kept(Return(TokenAt(T, i), value.v),
                     Parser_consume(T, value, "SEMICOLON", "Expect ';' after return value."))
    ELSE value

\* Parser._return_statement.
Parser_return_statement(T, p, i) ==
    Parser_return_end(T, i, IF Parser_peek(T, p).type = "SEMICOLON" THEN Returns(p, NoneNode)
                            ELSE Parser_method(T, p, "sequence"))

\* The statement _for_statement returns.  With the increment after the loop
\* instead of at the end of its body, the increment would run once, when the
\* loop has ended.
ForDesugaredLoose(initializer, condition, increment, body) ==
    LET loop == While(condition, body)
        tail == IF increment # NoneNode THEN <<loop, Expression(increment)>> ELSE <<loop>>
    IN  IF initializer # NoneNode THEN Block(<<initializer>> \o tail)
        ELSE IF increment # NoneNode THEN Block(tail) ELSE loop

ForDesugared(initializer, condition, increment, body) ==
    LET stepped == IF increment # NoneNode THEN Block(<<body, Expression(increment)>>) ELSE body
        loop == While(condition, stepped)
    IN  IF initializer # NoneNode THEN Block(<<initializer, loop>>) ELSE loop

\* Parser._for_statement up to the ')': the initializer, the condition and
\* the increment, one after the other.
Parser_for_initializer(T, paren) ==
    IF paren.ok
    THEN CASE Parser_peek(T, paren).type = "SEMICOLON" -> Returns(Parser_advance(T, paren), NoneNode)
           [] Parser_peek(T, paren).type = "VAR" ->
                Parser_variable_declaration(T, Parser_advance(T, paren))
           [] OTHER -> Parser_expression_statement(T, paren)
    ELSE paren

Parser_for_condition(T, clauses) ==
    IF clauses.ok
    THEN Parser_gather(clauses.v, IF Parser_peek(T, clauses).type = "SEMICOLON"
                                  THEN Returns(clauses, Literal(Bool(TRUE)))
                                  ELSE Parser_method(T, clauses, "sequence"))
    ELSE clauses

Parser_for_semicolon(T, clauses) ==
    IF clauses.ok
    THEN Parser_kept(clauses.v, Parser_consume(T, clauses, "SEMICOLON", "Expect ';' after loop condition."))
    ELSE clauses

Parser_for_increment(T, clauses) ==
    IF clauses.ok
    THEN Parser_gather(clauses.v, IF Parser_peek(T, clauses).type = "RIGHT_PAREN"
                                  THEN Returns(clauses, NoneNode)
                                  ELSE Parser_method(T, clauses, "sequence"))
    ELSE clauses

Parser_for_close(T, clauses) ==
    IF clauses.ok
    THEN Parser_kept(clauses.v, Parser_consume(T, clauses, "RIGHT_PAREN", "Expect ')' after for clauses."))
    ELSE clauses

Parser_for_clauses(T, p) ==
    Parser_for_close(T, Parser_for_increment(T, Parser_for_semicolon(T, Parser_for_condition(T,
        Parser_gather(<<>>, Parser_for_initializer(T,
            Parser_consume(T, p, "LEFT_PAREN", "Expect '(' after 'for'.")))))))

\* Parser._for_statement after `body = self._statement()`.
Parser_for_end(clauses, body) ==
    IF body.ok THEN Returns(body, ForDesugared(clauses[1], clauses[2], clauses[3], body.v)) ELSE body

\* Parser._for_statement after the clauses.
Parser_for_body(T, clauses) ==
    IF clauses.ok THEN Parser_for_end(clauses.v, Parser_method(T, clauses, "statement")) ELSE clauses

\* Parser._for_statement.
Parser_for_statement(T, p) == Parser_for_body(T, Parser_for_clauses(T, p))

\* `(` condition `)` of Parser._if_statement and Parser._while_statement.
Parser_condition_expression(T, paren) ==
    IF paren.ok THEN Parser_method(T, paren, "sequence") ELSE paren

Parser_condition_close(T, condition, close) ==
    IF condition.ok
    THEN Parser_kept(condition.v, Parser_consume(T, condition, "RIGHT_PAREN", close))
    ELSE condition

Parser_condition(T, p, open, close) ==
    Parser_condition_close(T, Parser_condition_expression(T, Parser_consume(T, p, "LEFT_PAREN", open)),
                           close)

\* Parser._if_statement after the else branch.
Parser_if_end(condition, then_branch, else_branch) ==
    IF else_branch.ok THEN Returns(else_branch, If(condition, then_branch, else_branch.v))
    ELSE else_branch

\* Parser._if_statement after the then branch.
Parser_if_else(T, condition, then_branch) ==
    IF then_branch.ok
    THEN Parser_if_end(condition, then_branch.v,
                       IF Parser_peek(T, then_branch).type = "ELSE"
                       THEN Parser_method(T, Parser_advance(T, then_branch), "statement")
                       ELSE Returns(then_branch, NoneNode))
    ELSE then_branch

\* Parser._if_statement after the condition.
Parser_if_then(T, condition) ==
    IF condition.ok THEN Parser_if_else(T, condition.v, Parser_method(T, condition, "statement")) ELSE condition

\* Parser._if_statement.
Parser_if_statement(T, p) ==
    Parser_if_then(T, Parser_condition(T, p, "Expect '(' after 'if'.", "Expect ')' after if condition."))

\* Parser._while_statement after the body.
Parser_while_end(condition, body) ==
    IF body.ok THEN Returns(body, While(condition, body.v)) ELSE body

\* Parser._while_statement after the condition.
Parser_while_body(T, condition) ==
    IF condition.ok THEN Parser_while_end(condition.v, Parser_method(T, condition, "statement")) ELSE condition

\* Parser._while_statement.
Parser_while_statement(T, p) ==
    Parser_while_body(T, Parser_condition(T, p, "Expect '(' after 'while'.", "Expect ')' after condition."))

\* `statements.append(self._declaration())`: the None of a declaration that
\* raised is appended as well.
Parser_block_append(statements, statement) ==
    [statement EXCEPT !.v = Append(statements, statement.v)]

\* The loop of Parser._block: p.v holds the statements so far.  The loop is
\* cut at more statements than there are tokens, a number a parser that
\* passes a token in every round never reaches.
Parser_block_loop(T, p) ==
    IF Parser_peek(T, p).type \notin {"RIGHT_BRACE", "EOF"} /\ Len(p.v) <= Len(T)
    THEN Parser_block_loop(T, Parser_block_append(p.v, Parser_method(T, p, "declaration")))
    ELSE p

\* Parser._block after its loop.
Parser_block_end(T, statements) ==
    IF Parser_peek(T, statements).type = "RIGHT_BRACE"
    THEN [statements EXCEPT !.cur = @ + 1]
    ELSE Raises(T, statements, statements.cur + 1, "Expect '}' after block.")

\* Parser._block.
Parser_block(T, p) == Parser_block_end(T, Parser_block_loop(T, Returns(p, <<>>)))

\* `return st.Block(statements)`.
Parser_block_statement(statements) ==
    IF statements.ok THEN Returns(statements, Block(statements.v)) ELSE statements

\* Parser._statement.
Parser_statement(T, p) ==
    CASE Parser_peek(T, p).type = "LEFT_BRACE" ->
            Parser_block_statement(Parser_method(T, Parser_advance(T, p), "block"))
      [] Parser_peek(T, p).type = "BREAK" -> Parser_break_statement(T, Parser_advance(T, p), p.cur + 1)
      [] Parser_peek(T, p).type = "CONTINUE" ->
            Parser_continue_statement(T, Parser_advance(T, p), p.cur + 1)
      [] Parser_peek(T, p).type = "FOR" -> Parser_for_statement(T, Parser_advance(T, p))
      [] Parser_peek(T, p).type = "IF" -> Parser_if_statement(T, Parser_advance(T, p))
      [] Parser_peek(T, p).type = "RETURN" -> Parser_return_statement(T, Parser_advance(T, p), p.cur + 1)
      [] Parser_peek(T, p).type = "WHILE" -> Parser_while_statement(T, Parser_advance(T, p))
      [] OTHER -> Parser_expression_statement(T, p)

\* `while self._match(TokenType.COMMA): if len(parameters) >= 255: ...` of
\* Parser._function: the commas are taken, no parameter is.
Parser_parameters(T, p) ==
    IF Parser_peek(T, p).type = "COMMA"
    THEN Parser_parameters(T, IF Len(p.v) >= MaxArguments
                              THEN Parser_error(T, Parser_advance(T, p), p.cur + 2,
                                                "Can't have more that 255 parameters.")
                              ELSE Parser_advance(T, p))
    ELSE p

\* `parameters.append(self._consume(...))` and the loop over the commas.
Parser_first_parameter(T, name) ==
    IF name.ok THEN Parser_parameters(T, Returns(name, <<name.v>>)) ELSE name

\* The messages of Parser._function for a kind.
FunctionMessage(kind, what) ==
    CASE kind = "function" /\ what = "name" -> "Expect function name."
      [] kind = "method" /\ what = "name" -> "Expect method name."
      [] kind = "function" /\ what = "paren" -> "Expect '(' after function name."
      [] kind = "method" /\ what = "paren" -> "Expect '(' after method name."
      [] kind = "function" /\ what = "body" -> "Expect '{' before function body."
      [] kind = "method" /\ what = "body" -> "Expect '{' before method body."

\* Parser._function up to the '{' of the body: the name and the parameters.
Parser_function_paren(T, name, kind) ==
    IF name.ok
    THEN Parser_kept(<<name.v>>, Parser_consume(T, name, "LEFT_PAREN", FunctionMessage(kind, "paren")))
    ELSE name

Parser_function_parameters(T, head) ==
    IF head.ok
    THEN Parser_gather(head.v, IF Parser_peek(T, head).type = "RIGHT_PAREN"
                               THEN Returns(head, <<>>)
                               ELSE Parser_first_parameter(T, Parser_consume(T, head, "IDENTIFIER",
                                                                            "Expect parameter name.")))
    ELSE head

Parser_function_close(T, head) ==
    IF head.ok
    THEN Parser_kept(head.v, Parser_consume(T, head, "RIGHT_PAREN", "Expect ')' after parameters."))
    ELSE head

Parser_function_brace(T, head, kind) ==
    IF head.ok
    THEN Parser_kept(head.v, Parser_consume(T, head, "LEFT_BRACE", FunctionMessage(kind, "body")))
    ELSE head

Parser_function_head(T, p, kind) ==
    Parser_function_brace(T, Parser_function_close(T, Parser_function_parameters(T,
        Parser_function_paren(T, Parser_consume(T, p, "IDENTIFIER", FunctionMessage(kind, "name")),
                              kind))), kind)

\* `return st.Function(name, parameters, body)`.
Parser_function_end(head, body) ==
    IF body.ok THEN Returns(body, Function(head[1], head[2], body.v)) ELSE body

\* Parser._function after the '{' of the body.
Parser_function_body(T, head) ==
    IF head.ok THEN Parser_function_end(head.v, Parser_method(T, head, "block")) ELSE head

\* Parser._function.
Parser_function(T, p, kind) == Parser_function_body(T, Parser_function_head(T, p, kind))

\* `methods.append(self._function('method'))`.
Parser_methods_append(methods, method) ==
    IF method.ok THEN Returns(method, Append(methods, method.v)) ELSE method

\* The loop over the methods of Parser._class_declaration.
Parser_methods(T, p) ==
    IF p.ok
    THEN IF Parser_peek(T, p).type \notin {"RIGHT_BRACE", "EOF"}
         THEN Parser_methods(T, Parser_methods_append(p.v, Parser_function(T, p, "method")))
         ELSE p
    ELSE p

\* Parser._class_declaration up to the '{' of the body: the name and the
\* superclass.
Parser_superclass_variable(name) ==
    IF name.ok THEN Returns(name, Variable(name.v)) ELSE name

Parser_class_superclass(T, name) ==
    IF name.ok
    THEN Parser_gather(<<name.v>>,
                       IF Parser_peek(T, name).type = "LESS"
                       THEN Parser_superclass_variable(
                                Parser_consume(T, Parser_advance(T, name), "IDENTIFIER",
                                               "Expect superclass name."))
                       ELSE Returns(name, NoneNode))
    ELSE name

Parser_class_brace(T, head) ==
    IF head.ok
    THEN Parser_kept(head.v, Parser_consume(T, head, "LEFT_BRACE", "Expect '{' before class body."))
    ELSE head

Parser_class_head(T, p) ==
    Parser_class_brace(T, Parser_class_superclass(T, Parser_consume(T, p, "IDENTIFIER",
                                                                   "Expect class name.")))

\* Parser._class_declaration after the methods.
Parser_class_end(T, head, methods) ==
    IF methods.ok
    THEN Parser_kept(Class(head[1], head[2], methods.v),
                     Parser_consume(T, methods, "RIGHT_BRACE", "Expect '}' after class body."))
    ELSE methods

\* Parser._class_declaration after the '{' of the body.
Parser_class_body(T, head) ==
    IF head.ok THEN Parser_class_end(T, head.v, Parser_methods(T, Returns(head, <<>>))) ELSE head

\* Parser._class_declaration.
Parser_class_declaration(T, p) == Parser_class_body(T, Parser_class_head(T, p))

\* The token types a statement starts with, where _synchronize stops.  With
\* fewer of them, more tokens are passed.
SynchronizeTypesFew == {"CLASS", "FUN"}

SynchronizeTypes == {"CLASS", "FUN", "VAR", "FOR", "IF", "WHILE", "RETURN"}

\* The loop of Parser._synchronize.
Parser_synchronize_loop(T, p) ==
    IF \/ Parser_is_at_end(T, p)
       \/ T[Parser_previous(T, p)].type = "SEMICOLON"
       \/ Parser_peek(T, p).type \in SynchronizeTypes
    THEN p
    ELSE Parser_synchronize_loop(T, Parser_advance(T, p))

\* The first step of Parser._synchronize, `self._advance()`.  Left out, a
\* token that follows a semicolon and starts no statement is never passed.
Parser_synchronize_stay(T, p) == p

Parser_synchronize_first(T, p) == Parser_advance(T, p)

\* Parser._synchronize.
Parser_synchronize(T, p) == Parser_synchronize_loop(T, Parser_synchronize_first(T, p))

\* The try block of Parser._declaration.
Parser_declaration_try(T, p) ==
    CASE Parser_peek(T, p).type = "CLASS" -> Parser_class_declaration(T, Parser_advance(T, p))
      [] Parser_peek(T, p).type = "FUN" -> Parser_function(T, Parser_advance(T, p), "function")
      [] Parser_peek(T, p).type = "VAR" -> Parser_variable_declaration(T, Parser_advance(T, p))
      [] OTHER -> Parser_method(T, p, "statement")

\* The call of _declaration that began at from, raised at raised (-1 when it
\* did not raise) and returned in p, is recorded.
Parser_called(p, from, raised) ==
    [p EXCEPT !.calls = Append(@, [from |-> from, raised |-> raised, to |-> p.cur])]

\* `except _ParseError: self._synchronize()`, and None is returned.
Parser_declaration_except(T, from, tried) ==
    IF tried.ok THEN Parser_called(tried, from, -1)
    ELSE Parser_called(Returns(Parser_synchronize(T, tried), NoneNode), from, tried.cur)

\* Parser._declaration.
Parser_declaration(T, p) == Parser_declaration_except(T, p.cur, Parser_declaration_try(T, p))

\* The methods that call each other.
Parser_method(T, p, method) ==
    CASE method = "declaration" -> Parser_declaration(T, p)
      [] method = "statement" -> Parser_statement(T, p)
      [] method = "block" -> Parser_block(T, p)
      [] method = "sequence" -> Parser_sequence(T, p)
      [] method = "assignment" -> Parser_assignment(T, p)
      [] method = "ternary" -> Parser_ternary(T, p)
      [] method = "logical_or" -> Parser_logical_or(T, p)
      [] method = "logical_and" -> Parser_logical_and(T, p)
      [] method = "equality" -> Parser_equality(T, p)
      [] method = "comparison" -> Parser_comparison(T, p)
      [] method = "term" -> Parser_term(T, p)
      [] method = "factor" -> Parser_factor(T, p)
      [] method = "unary" -> Parser_unary(T, p)
      [] method = "call" -> Parser_call(T, p)
      [] method = "primary" -> Parser_primary(T, p)

----------------------------------------------------------------------------
\* Environment (environment.py).  es is the heap of Environment objects; a
\* reference is an index into it and 0 is None.

\* Interpreter._GLOBALS: the first Environment built.
GLOBALS == 1

\* Environment(enclosing): the heap with the new frame at its end.
Environment_new(es, enclosing) == Append(es, [enclosing |-> enclosing, values |-> EmptyDict])

Environment_define(es, env, name, value) == [es EXCEPT ![env].values = DictSet(@, name, value)]

\* Environment.initialize: the insert, whether or not the name is there.
Environment_initialize(es, env, name, value) ==
    [es EXCEPT ![env].values = DictSet(@, name.lexeme, value)]

\* A mutant of Environment_assign: the receiver takes the binding, whether
\* or not it holds the name.
Environment_assign_receiver(es, env, name, value) ==
    [ok |-> TRUE, envs |-> [es EXCEPT ![env].values = DictSet(@, name.lexeme, value)]]

\* Environment.assign: the heap after the assignment, or ok = FALSE for the
\* RuntimeException "Undefined variable".
RECURSIVE Environment_assign(_, _, _, _)
Environment_assign(es, env, name, value) ==
    IF name.lexeme \in DOMAIN es[env].values
    THEN [ok |-> TRUE, envs |-> [es EXCEPT ![env].values = DictSet(@, name.lexeme, value)]]
    ELSE IF es[env].enclosing # 0
    THEN Environment_assign(es, es[env].enclosing, name, value)
    ELSE [ok |-> FALSE, envs |-> es]

\* Environment.get: the value, or ok = FALSE for "Undefined variable".
RECURSIVE Environment_get(_, _, _)
Environment_get(es, env, name) ==
    IF name.lexeme \in DOMAIN es[env].values
    THEN [ok |-> TRUE, value |-> es[env].values[name.lexeme]]
    ELSE IF es[env].enclosing # 0
    THEN Environment_get(es, es[env].enclosing, name)
    ELSE [ok |-> FALSE, value |-> Nil]

\* Environment._ancestor: distance enclosing links up; range(distance) is
\* empty for distance <= 0.  0 when the walk reaches None: the next
\* attribute access on it raises AttributeError.
RECURSIVE Environment_ancestor(_, _, _)
Environment_ancestor(es, env, distance) ==
    IF env = 0 \/ distance <= 0 THEN env
    ELSE Environment_ancestor(es, es[env].enclosing, distance - 1)

\* Environment.get_at: values.get(name) on the ancestor, None for a name the
\* frame does not hold.
Environment_get_at(es, env, distance, name) ==
    LET a == Environment_ancestor(es, env, distance)
    IN  IF a = 0 THEN [ok |-> FALSE, value |-> Nil]
        ELSE [ok |-> TRUE,
              value |-> IF name \in DOMAIN es[a].values THEN es[a].values[name] ELSE Nil]

\* Environment.assign_at: values[name] = value on the ancestor.
Environment_assign_at(es, env, distance, name, value) ==
    LET a == Environment_ancestor(es, env, distance)
    IN  IF a = 0 THEN [ok |-> FALSE, envs |-> es]
        ELSE [ok |-> TRUE, envs |-> [es EXCEPT ![a].values = DictSet(@, name.lexeme, value)]]

----------------------------------------------------------------------------
\* Callables and classes (callable.py, classes.py, natives.py).

\* LoxFunction (callable.py:27-31).
LoxFunction(declaration, closure, is_initializer) ==
    [declaration |-> declaration, closure |-> closure, is_initializer |-> is_initializer]

\* LoxClass (classes.py:14-17): the dataclass has the fields name and
\* methods.  Interpreter.visit_class_stmt passes the superclass as well,
\* which no field of the class keeps.
LoxClass(name, superclass, methods) == [name |-> name, methods |-> methods]

\* LoxInstance (classes.py:39-42).
LoxInstance(klass, fields) == [klass |-> klass, fields |-> fields]

\* LoxClass.find_method: self.methods.get(name); 0 is None.
LoxClass_find_method(cs, klass, name) ==
    IF name \in DOMAIN cs[klass].methods THEN cs[klass].methods[name] ELSE 0

\* LoxFunction.arity, LoxClass.arity and the arities of the natives.
Arity(fs, cs, callee) ==
    CASE callee.t = "fun" -> Len(fs[callee.ref].declaration.parameters)
      [] callee.t = "class" ->
            LET initializer == LoxClass_find_method(cs, callee.ref, "init")
            IN  IF initializer = 0 THEN 0 ELSE Len(fs[initializer].declaration.parameters)
      [] callee.t = "native" -> IF callee.name = "clock" THEN 0 ELSE 1

\* isinstance(callee, LoxCallable)
IsCallable(v) == v.t \in {"fun", "class", "native"}

\* Interpreter._is_truthy.
Interpreter_is_truthy(v) ==
    IF v.t = "nil" THEN FALSE
    ELSE IF v.t = "bool" THEN v.v
    ELSE TRUE

\* Interpreter.stringify: 'nil'; a float without its '.0' (the numbers of the
\* model are whole); 'true' and 'false'; a string as it is; the __str__ of
\* the callables and instances.
Interpreter_stringify(fs, cs, is, v) ==
    CASE v.t = "nil" -> "nil"
      [] v.t = "num" -> ToString(v.v)
      [] v.t = "bool" -> IF v.v THEN "true" ELSE "false"
      [] v.t = "str" -> v.v
      [] v.t = "fun" -> "<fn " \o fs[v.ref].declaration.name.lexeme \o ">"
      [] v.t = "class" -> "<" \o cs[v.ref].name \o ">"
      [] v.t = "inst" -> "<" \o cs[is[v.ref].klass].name \o " instance>"
      [] v.t = "native" -> "<native fn>"

----------------------------------------------------------------------------
\* Interpreter (interpreter.py): the machine.
\*
\* ctrl is what runs now:
\*   [m |-> "exec", s]    _execute(s) is being called
\*   [m |-> "eval", e]    _evaluate(e) is being called
\*   [m |-> "value", v]   the last _evaluate, or call, returned v
\*   [m |-> "normal"]     the last _execute returned
\*   [m |-> "raise", exc] an exception is propagating
\*   [m |-> "halt"]       Interpreter.interpret is not running
\* kont holds one frame for each Python activation that waits for ctrl.

Exec(s) == [m |-> "exec", s |-> s]
Eval(e) == [m |-> "eval", e |-> e]
Value(v) == [m |-> "value", v |-> v]
Normal == [m |-> "normal"]
Raise(exc) == [m |-> "raise", exc |-> exc]
Halt == [m |-> "halt"]

\* exceptions.py, and the Python errors the interpreter can run into.
RuntimeException(token, msg) == [type |-> "RuntimeException", token |-> token, msg |-> msg]
ReturnExc(value) == [type |-> "Return", value |-> value]
BreakExc == [type |-> "Break"]
ContinueExc == [type |-> "Continue"]
PythonError(type) == [type |-> type]

Top(k) == k[Len(k)]
Pop(k) == SubSeq(k, 1, Len(k) - 1)
Push(k, frame) == Append(k, frame)
ReplaceTop(k, frame) == [k EXCEPT ![Len(k)] = frame]

\* The interpreter and its heap as one record, so that a handler is a function
\* from the state it is entered in to the state it leaves.
Machine ==
    [environment |-> environment, envs |-> envs, funs |-> funs, classes |-> classes,
     instances |-> instances, ctrl |-> ctrl, kont |-> kont, output |-> output]

Becomes(M) ==
    /\ environment' = M.environment
    /\ envs' = M.envs
    /\ funs' = M.funs
    /\ classes' = M.classes
    /\ instances' = M.instances
    /\ ctrl' = M.ctrl
    /\ kont' = M.kont
    /\ output' = M.output

\* Interpreter._evaluate is entered: the expression joins the history.
LogEval == evalLog' = IF ctrl.m = "eval" THEN Append(evalLog, ctrl.e) ELSE evalLog

\* What an interpreter step leaves alone, unless it says otherwise.
Rest == UNCHANGED <<scanVars, loxVars, runVars, locals>>

Interpreting == phase = "interpret"
Executing(node) == Interpreting /\ ctrl.m = "exec" /\ ctrl.s.node = node
Evaluating(node) == Interpreting /\ ctrl.m = "eval" /\ ctrl.e.node = node
Returned(k) == Interpreting /\ ctrl.m = "value" /\ kont # <<>> /\ Top(kont).k = k
Completed(k) == Interpreting /\ ctrl.m = "normal" /\ kont # <<>> /\ Top(kont).k = k
Raising(k) == Interpreting /\ ctrl.m = "raise" /\ kont # <<>> /\ Top(kont).k = k

\* Interpreter.execute_block up to its first statement: prev is saved and
\* the environment replaced.  h_entered is history: the frame that was
\* current when execute_block was called.
execute_block(M, statements, env) ==
    [M EXCEPT !.kont = Push(@, [k |-> "execute_block", statements |-> statements, i |-> 0,
                                prev |-> M.environment, h_entered |-> M.environment]),
              !.environment = env,
              !.ctrl = Normal]

\* A mutant of execute_block_finally: the restore without try/finally, which
\* an exception skips.
execute_block_no_finally(M) ==
    [M EXCEPT !.environment = IF M.ctrl.m = "normal" THEN Top(M.kont).prev ELSE @,
              !.kont = Pop(@)]

\* The finally clause of Interpreter.execute_block, on the normal and on the
\* exceptional way out: self._environment = prev.
execute_block_finally(M) ==
    [M EXCEPT !.environment = Top(M.kont).prev, !.kont = Pop(@)]

\* LoxFunction.bind: a frame under the closure that holds 'this', and the
\* function over it.  ref is the new function.
LoxFunction_bind(M, fn, instance) ==
    LET env == Len(M.envs) + 1
        es == Environment_define(Environment_new(M.envs, M.funs[fn].closure), env, "this", instance)
    IN  [M EXCEPT !.envs = es,
                  !.funs = Append(@, LoxFunction(M.funs[fn].declaration, env, M.funs[fn].is_initializer))]

\* The frame LoxFunction.call binds the parameters in: zip stops at the
\* shorter of parameters and arguments.
BindParameters(es, env, parameters, arguments) ==
    LET n == IF Len(parameters) < Len(arguments) THEN Len(parameters) ELSE Len(arguments)
        Bound[i \in 0..n] ==
            IF i = 0 THEN es
            ELSE Environment_define(Bound[i - 1], env, parameters[i].lexeme, arguments[i])
    IN  Bound[n]

\* A mutant of CallEnclosing: the frames of a call hang under the frame the
\* call is made in.
CallEnclosingCaller(M, fn) == M.environment

\* The frame LoxFunction.call puts the frame of the parameters under:
\* Environment(self.closure).
CallEnclosing(M, fn) == M.funs[fn].closure

\* LoxFunction.call up to the first statement of the body: a frame for the
\* parameters under the closure, a frame for the body under it.
LoxFunction_call(M, fn, arguments) ==
    LET f == M.funs[fn]
        env == Len(M.envs) + 1
        es1 == BindParameters(Environment_new(M.envs, CallEnclosing(M, fn)), env,
                              f.declaration.parameters, arguments)
        es2 == Environment_new(es1, env)
        M1 == [M EXCEPT !.envs = es2, !.kont = Push(@, [k |-> "function_call", fn |-> fn])]
    IN  execute_block(M1, f.declaration.body, env + 1)

\* A mutant of InitializerResult: the initializer returns what any function
\* returns, the value its Return carries or None.
InitializerResultCarried(M, fn) == IF M.ctrl.m = "raise" THEN M.ctrl.exc.value ELSE Nil

\* What LoxFunction.call returns for an initializer: closure.get_at(0, 'this').
InitializerResult(M, fn) == Environment_get_at(M.envs, M.funs[fn].closure, 0, "this").value

\* LoxClass.call: the instance, and the call of init bound to it when the
\* class has one.
LoxClass_call(M, klass, arguments) ==
    LET instance == Len(M.instances) + 1
        M1 == [M EXCEPT !.instances = Append(@, LoxInstance(klass, EmptyDict))]
        initializer == LoxClass_find_method(M.classes, klass, "init")
    IN  IF initializer # 0
        THEN LET M2 == LoxFunction_bind(M1, initializer, InstRef(instance))
                 M3 == [M2 EXCEPT !.kont = Push(@, [k |-> "class_call", instance |-> instance])]
             IN  LoxFunction_call(M3, Len(M2.funs), arguments)
        ELSE [M1 EXCEPT !.ctrl = Value(InstRef(instance))]

\* natives.py: Print.call and PrintLn.call write to stdout and return None.
\* Clock is in the globals; no program of the model calls it.
Native_call(M, name, arguments) ==
    LET text == Interpreter_stringify(M.funs, M.classes, M.instances, arguments[1])
    IN  [M EXCEPT !.output = Append(@, IF name = "println" THEN text \o "\n" ELSE text),
                  !.ctrl = Value(Nil)]

\* callee.call(self, arguments)
Invoke(M, callee, arguments) ==
    CASE callee.t = "fun" -> LoxFunction_call(M, callee.ref, arguments)
      [] callee.t = "class" -> LoxClass_call(M, callee.ref, arguments)
      [] callee.t = "native" -> Native_call(M, callee.name, arguments)

\* LoxInstance.get: a field, else a method of the class bound to the
\* instance, else "Undefined property".
LoxInstance_get(M, instance, name) ==
    IF name.lexeme \in DOMAIN M.instances[instance].fields
    THEN [M EXCEPT !.ctrl = Value(M.instances[instance].fields[name.lexeme])]
    ELSE LET method == LoxClass_find_method(M.classes, M.instances[instance].klass, name.lexeme)
         IN  IF method # 0
             THEN LET M1 == LoxFunction_bind(M, method, InstRef(instance))
                  IN  [M1 EXCEPT !.ctrl = Value(FunRef(Len(M1.funs)))]
             ELSE [M EXCEPT !.ctrl = Raise(RuntimeException(name,
                                        "Undefined property '" \o name.lexeme \o "'."))]

\* Interpreter._lookup_variable: what _evaluate returns or raises.
Interpreter_lookup_variable(M, table, name, expr) ==
    IF expr \notin DOMAIN table
    THEN LET r == Environment_get(M.envs, GLOBALS, name)
         IN  IF r.ok THEN Value(r.value)
             ELSE Raise(RuntimeException(name, "Undefined variable '" \o name.lexeme \o "'."))
    ELSE LET r == Environment_get_at(M.envs, M.environment, table[expr], name.lexeme)
         IN  IF r.ok THEN Value(r.value) ELSE Raise(PythonError("AttributeError"))

----------------------------------------------------------------------------
\* Interpreter: statements.

\* Interpreter.visit_block_stmt.
visit_block_stmt ==
    /\ Executing("Block")
    /\ LET M == Machine
           M1 == [M EXCEPT !.envs = Environment_new(@, M.environment)]
       IN  Becomes(execute_block(M1, ctrl.s.statements, Len(M1.envs)))
    /\ LogEval /\ Rest /\ UNCHANGED lastExit

\* The loop of Interpreter.execute_block: the next statement.
execute_block_next ==
    /\ Completed("execute_block")
    /\ Top(kont).i < Len(Top(kont).statements)
    /\ LET f == Top(kont)
       IN  Becomes([Machine EXCEPT !.ctrl = Exec(f.statements[f.i + 1]),
                                   !.kont = ReplaceTop(@, [f EXCEPT !.i = @ + 1])])
    /\ LogEval /\ Rest /\ UNCHANGED lastExit

\* How many activations of execute_block the stack holds.
BlockDepth(k) == Cardinality({j \in 1..Len(k) : k[j].k = "execute_block"})

\* Interpreter.execute_block returns or lets an exception through: the
\* finally clause runs on both ways.
execute_block_exit ==
    /\ \/ Completed("execute_block") /\ Top(kont).i = Len(Top(kont).statements)
       \/ Raising("execute_block")
    /\ Becomes(execute_block_finally(Machine))
    /\ lastExit' = [how |-> IF ctrl.m = "normal" THEN "normal" ELSE ctrl.exc.type,
                    entered |-> Top(kont).h_entered,
                    left |-> environment',
                    depth |-> BlockDepth(kont)]
    /\ LogEval /\ Rest

\* Interpreter.visit_break_stmt.
visit_break_stmt ==
    /\ Executing("Break")
    /\ Becomes([Machine EXCEPT !.ctrl = Raise(BreakExc)])
    /\ LogEval /\ Rest /\ UNCHANGED lastExit

\* Interpreter.visit_continue_stmt.
visit_continue_stmt ==
    /\ Executing("Continue")
    /\ Becomes([Machine EXCEPT !.ctrl = Raise(ContinueExc)])
    /\ LogEval /\ Rest /\ UNCHANGED lastExit

\* Interpreter.visit_expression_stmt: the call of _evaluate, and its return.
visit_expression_stmt ==
    /\ Executing("Expression")
    /\ Becomes([Machine EXCEPT !.ctrl = Eval(ctrl.s.expression),
                               !.kont = Push(@, [k |-> "expression_stmt"])])
    /\ LogEval /\ Rest /\ UNCHANGED lastExit

expression_stmt_return ==
    /\ Returned("expression_stmt")
    /\ Becomes([Machine EXCEPT !.ctrl = Normal, !.kont = Pop(@)])
    /\ LogEval /\ Rest /\ UNCHANGED lastExit

\* Interpreter.visit_function_stmt.
visit_function_stmt ==
    /\ Executing("Function")
    /\ LET function == Len(funs) + 1
       IN  Becomes([Machine EXCEPT
                !.funs = Append(@, LoxFunction(ctrl.s, environment, FALSE)),
                !.envs = Environment_define(@, environment, ctrl.s.name.lexeme, FunRef(function)),
                !.ctrl = Normal])
    /\ LogEval /\ Rest /\ UNCHANGED lastExit

\* Interpreter.visit_if_stmt: the condition, then the branch.
visit_if_stmt ==
    /\ Executing("If")
    /\ Becomes([Machine EXCEPT !.ctrl = Eval(ctrl.s.condition),
                               !.kont = Push(@, [k |-> "if_stmt", s |-> ctrl.s])])
    /\ LogEval /\ Rest /\ UNCHANGED lastExit

if_stmt_branch ==
    /\ Returned("if_stmt")
    /\ LET stmt == Top(kont).s
       IN  Becomes([Machine EXCEPT
                !.ctrl = IF Interpreter_is_truthy(ctrl.v) THEN Exec(stmt.then_branch)
                         ELSE IF stmt.else_branch # NoneNode THEN Exec(stmt.else_branch)
                         ELSE Normal,
                !.kont = Pop(@)])
    /\ LogEval /\ Rest /\ UNCHANGED lastExit

\* Interpreter.visit_return_stmt: raise Return(None), or the value first.
visit_return_stmt ==
    /\ Executing("Return")
    /\ IF ctrl.s.value = NoneNode
       THEN Becomes([Machine EXCEPT !.ctrl = Raise(ReturnExc(Nil))])
       ELSE Becomes([Machine EXCEPT !.ctrl = Eval(ctrl.s.value),
                                    !.kont = Push(@, [k |-> "return_stmt"])])
    /\ LogEval /\ Rest /\ UNCHANGED lastExit

return_stmt_raise ==
    /\ Returned("return_stmt")
    /\ Becomes([Machine EXCEPT !.ctrl = Raise(ReturnExc(ctrl.v)), !.kont = Pop(@)])
    /\ LogEval /\ Rest /\ UNCHANGED lastExit

\* Interpreter.visit_var_stmt: the initializer, if any, then initialize.
visit_var_stmt ==
    /\ Executing("Var")
    /\ IF ctrl.s.initializer = NoneNode
       THEN Becomes([Machine EXCEPT
                !.envs = Environment_initialize(@, environment, ctrl.s.name, Nil),
                !.ctrl = Normal])
       ELSE Becomes([Machine EXCEPT !.ctrl = Eval(ctrl.s.initializer),
                                    !.kont = Push(@, [k |-> "var_stmt", s |-> ctrl.s])])
    /\ LogEval /\ Rest /\ UNCHANGED lastExit

var_stmt_initialize ==
    /\ Returned("var_stmt")
    /\ Becomes([Machine EXCEPT
            !.envs = Environment_initialize(@, environment, Top(kont).s.name, ctrl.v),
            !.ctrl = Normal,
            !.kont = Pop(@)])
    /\ LogEval /\ Rest /\ UNCHANGED lastExit

\* Interpreter.visit_while_stmt: the condition is evaluated outside the try.
visit_while_stmt ==
    /\ Executing("While")
    /\ Becomes([Machine EXCEPT !.ctrl = Eval(ctrl.s.condition),
                               !.kont = Push(@, [k |-> "while_condition", s |-> ctrl.s])])
    /\ LogEval /\ Rest /\ UNCHANGED lastExit

\* The condition is known: into the try and the body, or out of the loop.
while_stmt_test ==
    /\ Returned("while_condition")
    /\ LET stmt == Top(kont).s
       IN  IF Interpreter_is_truthy(ctrl.v)
           THEN Becomes([Machine EXCEPT !.ctrl = Exec(stmt.body),
                                        !.kont = ReplaceTop(@, [k |-> "while_body", s |-> stmt])])
           ELSE Becomes([Machine EXCEPT !.ctrl = Normal, !.kont = Pop(@)])
    /\ LogEval /\ Rest /\ UNCHANGED lastExit

\* The body returned, or raised Continue: the condition again.
while_stmt_again ==
    /\ \/ Completed("while_body")
       \/ Raising("while_body") /\ ctrl.exc.type = "Continue"
    /\ LET stmt == Top(kont).s
       IN  Becomes([Machine EXCEPT !.ctrl = Eval(stmt.condition),
                                   !.kont = ReplaceTop(@, [k |-> "while_condition", s |-> stmt])])
    /\ LogEval /\ Rest /\ UNCHANGED lastExit

\* The body raised Break: out of the loop.
while_stmt_break ==
    /\ Raising("while_body") /\ ctrl.exc.type = "Break"
    /\ Becomes([Machine EXCEPT !.ctrl = Normal, !.kont = Pop(@)])
    /\ LogEval /\ Rest /\ UNCHANGED lastExit

\* The method table of Interpreter.visit_class_stmt: one LoxFunction for each
\* method, in order, a later method of the same name replacing an earlier.
ClassMethods(M, methods, closure) ==
    LET Built[i \in 0..Len(methods)] ==
            IF i = 0 THEN [funs |-> M.funs, methods |-> EmptyDict]
            ELSE [funs |-> Append(Built[i - 1].funs,
                                  LoxFunction(methods[i], closure, methods[i].name.lexeme = "init")),
                  methods |-> DictSet(Built[i - 1].methods, methods[i].name.lexeme,
                                      Len(Built[i - 1].funs) + 1)]
    IN  Built[Len(methods)]

\* A mutant of ClassFrameAfter: the frame that holds 'super' stays current.
ClassFrameKept(M, stmt) == IF stmt.superclass # NoneNode THEN Len(M.envs) + 1 ELSE M.environment

\* self._environment after the methods of a class are made: with a
\* superclass `self._environment = self._environment.enclosing` leaves the
\* frame of 'super', which was made under the frame of the statement.
ClassFrameAfter(M, stmt) == M.environment

\* Interpreter.visit_class_stmt from `self._environment.define(name, None)`
\* on.  superclass is the value of the superclass expression, None without.
ClassDefine(M, stmt, superclass) ==
    LET es1 == Environment_define(M.envs, M.environment, stmt.name.lexeme, Nil)
        has_super == stmt.superclass # NoneNode
        env == IF has_super THEN Len(es1) + 1 ELSE M.environment
        es2 == IF has_super
               THEN Environment_define(Environment_new(es1, M.environment), env, "super", superclass)
               ELSE es1
        built == ClassMethods(M, stmt.methods, env)
        klass == Len(M.classes) + 1
        after == ClassFrameAfter(M, stmt)
        assigned == Environment_assign(es2, after, stmt.name, ClassRef(klass))
    IN  [M EXCEPT !.environment = after,
                  !.envs = assigned.envs,
                  !.funs = built.funs,
                  !.classes = Append(@, LoxClass(stmt.name.lexeme, superclass, built.methods)),
                  !.ctrl = Normal]

\* Interpreter.visit_class_stmt: the superclass, if any, then the class.
visit_class_stmt ==
    /\ Executing("Class")
    /\ IF ctrl.s.superclass = NoneNode
       THEN Becomes(ClassDefine(Machine, ctrl.s, Nil))
       ELSE Becomes([Machine EXCEPT !.ctrl = Eval(ctrl.s.superclass),
                                    !.kont = Push(@, [k |-> "class_stmt", s |-> ctrl.s])])
    /\ LogEval /\ Rest /\ UNCHANGED lastExit

class_stmt_define ==
    /\ Returned("class_stmt")
    /\ LET stmt == Top(kont).s
           M == [Machine EXCEPT !.kont = Pop(@)]
       IN  IF ctrl.v.t # "class"
           THEN Becomes([M EXCEPT !.ctrl = Raise(RuntimeException(stmt.superclass.name,
                                                    "Superclass must be a class."))])
           ELSE Becomes(ClassDefine(M, stmt, ctrl.v))
    /\ LogEval /\ Rest /\ UNCHANGED lastExit

----------------------------------------------------------------------------
\* Interpreter: expressions.

\* Interpreter.visit_literal_expr.
visit_literal_expr ==
    /\ Evaluating("Literal")
    /\ Becomes([Machine EXCEPT !.ctrl = Value(ctrl.e.value)])
    /\ LogEval /\ Rest /\ UNCHANGED lastExit

\* Interpreter.visit_variable_expr.
visit_variable_expr ==
    /\ Evaluating("Variable")
    /\ Becomes([Machine EXCEPT !.ctrl = Interpreter_lookup_variable(Machine, locals, ctrl.e.name, ctrl.e)])
    /\ LogEval /\ Rest /\ UNCHANGED lastExit

\* Interpreter.visit_this_expr.
visit_this_expr ==
    /\ Evaluating("This")
    /\ Becomes([Machine EXCEPT !.ctrl = Interpreter_lookup_variable(Machine, locals, ctrl.e.keyword, ctrl.e)])
    /\ LogEval /\ Rest /\ UNCHANGED lastExit

\* Interpreter.visit_assign_expr: the value, then the store.
visit_assign_expr ==
    /\ Evaluating("Assign")
    /\ Becomes([Machine EXCEPT !.ctrl = Eval(ctrl.e.value),
                               !.kont = Push(@, [k |-> "assign", e |-> ctrl.e])])
    /\ LogEval /\ Rest /\ UNCHANGED lastExit

assign_expr_store ==
    /\ Returned("assign")
    /\ LET expr == Top(kont).e
           M == [Machine EXCEPT !.kont = Pop(@)]
       IN  IF expr \notin DOMAIN locals
           THEN LET r == Environment_assign(envs, GLOBALS, expr.name, ctrl.v)
                IN  IF r.ok THEN Becomes([M EXCEPT !.envs = r.envs])
                    ELSE Becomes([M EXCEPT !.ctrl = Raise(RuntimeException(expr.name,
                                        "Undefined variable '" \o expr.name.lexeme \o "'"))])
           ELSE LET r == Environment_assign_at(envs, environment, locals[expr], expr.name, ctrl.v)
                IN  IF r.ok THEN Becomes([M EXCEPT !.envs = r.envs])
                    ELSE Becomes([M EXCEPT !.ctrl = Raise(PythonError("AttributeError"))])
    /\ LogEval /\ Rest /\ UNCHANGED lastExit

\* isinstance(v, float): a bool is no float.
IsNumber(v) == v.t = "num"

\* all(...) over comparisons of which one may have run out of stack.
AllEqual(results) ==
    IF "False" \in results THEN "False"
    ELSE IF "RecursionError" \in results THEN "RecursionError"
    ELSE "True"

RECURSIVE PyEqual(_, _, _, _)
RECURSIVE Environment_eq(_, _, _, _)

\* The __eq__ @dataclass generates for Environment: the same class, then
\* (enclosing, values) == (enclosing, values); a tuple and a dict compare
\* their items by identity first and by == after.  0 is None.
Environment_eq(M, e1, e2, n) ==
    IF e1 = e2 THEN "True"
    ELSE IF e1 = 0 \/ e2 = 0 THEN "False"
    ELSE IF n = 0 THEN "RecursionError"
    ELSE LET v1 == M.envs[e1].values
             v2 == M.envs[e2].values
         IN  AllEqual({Environment_eq(M, M.envs[e1].enclosing, M.envs[e2].enclosing, n - 1)}
                      \cup (IF DOMAIN v1 = DOMAIN v2
                            THEN {PyEqual(M, v1[k], v2[k], n - 1) : k \in DOMAIN v1}
                            ELSE {"False"}))

\* Python's == on two Lox values, n comparisons deep at most.  None, bool,
\* float and str by value (True == 1.0 and False == 0.0).  LoxFunction,
\* LoxClass and LoxInstance are @dataclass(frozen=True), which generates
\* __eq__: two objects of the same class are equal when their fields are,
\* one by one, the same object or equal.  The natives have no __eq__.
PyEqual(M, a, b, n) ==
    IF a.t = b.t /\ a = b THEN "True"
    ELSE IF a.t = "bool" /\ b.t = "num" THEN (IF (IF a.v THEN 1 ELSE 0) = b.v THEN "True" ELSE "False")
    ELSE IF a.t = "num" /\ b.t = "bool" THEN (IF a.v = (IF b.v THEN 1 ELSE 0) THEN "True" ELSE "False")
    ELSE IF a.t # b.t \/ a.t \notin {"fun", "class", "inst"} THEN "False"
    ELSE IF n = 0 THEN "RecursionError"
    ELSE CASE a.t = "fun" ->
                LET f1 == M.funs[a.ref]
                    f2 == M.funs[b.ref]
                IN  AllEqual({IF f1.declaration = f2.declaration THEN "True" ELSE "False",
                              Environment_eq(M, f1.closure, f2.closure, n - 1),
                              IF f1.is_initializer = f2.is_initializer THEN "True" ELSE "False"})
           [] a.t = "class" ->
                LET m1 == M.classes[a.ref].methods
                    m2 == M.classes[b.ref].methods
                IN  AllEqual({IF M.classes[a.ref].name = M.classes[b.ref].name THEN "True" ELSE "False"}
                             \cup (IF DOMAIN m1 = DOMAIN m2
                                   THEN {PyEqual(M, FunRef(m1[k]), FunRef(m2[k]), n - 1) : k \in DOMAIN m1}
                                   ELSE {"False"}))
           [] a.t = "inst" ->
                LET i1 == M.instances[a.ref]
                    i2 == M.instances[b.ref]
                IN  AllEqual({PyEqual(M, ClassRef(i1.klass), ClassRef(i2.klass), n - 1)}
                             \cup (IF DOMAIN i1.fields = DOMAIN i2.fields
                                   THEN {PyEqual(M, i1.fields[k], i2.fields[k], n - 1) : k \in DOMAIN i1.fields}
                                   ELSE {"False"}))

\* Interpreter._is_equal under == and !=: what the operator returns, or the
\* RecursionError of a comparison that does not end.
Interpreter_is_equal(M, operator, left, right) ==
    LET equal == PyEqual(M, left, right, MaxCompare)
    IN  IF equal = "RecursionError" THEN Raise(PythonError("RecursionError"))
        ELSE Value(Bool(IF operator.type = "BANG_EQUAL" THEN equal = "False" ELSE equal = "True"))

\* Interpreter.visit_binary_expr after both operands: the operators the
\* programs of the model use, but the comma.
BinaryResult(M, operator, left, right) ==
    LET numbers == IsNumber(left) /\ IsNumber(right)
        not_numbers == Raise(RuntimeException(operator, "Operands must be numbers."))
    IN  CASE operator.type \in {"BANG_EQUAL", "EQUAL_EQUAL"} -> Interpreter_is_equal(M, operator, left, right)
          [] operator.type = "GREATER" -> IF numbers THEN Value(Bool(left.v > right.v)) ELSE not_numbers
          [] operator.type = "LESS" -> IF numbers THEN Value(Bool(left.v < right.v)) ELSE not_numbers
          [] operator.type = "MINUS" -> IF numbers THEN Value(Num(left.v - right.v)) ELSE not_numbers
          [] operator.type = "STAR" -> IF numbers THEN Value(Num(left.v * right.v)) ELSE not_numbers
          [] operator.type = "PLUS" ->
                IF numbers THEN Value(Num(left.v + right.v))
                ELSE IF left.t = "str" \/ right.t = "str"
                THEN Value(Str(Interpreter_stringify(M.funs, M.classes, M.instances, left)
                               \o Interpreter_stringify(M.funs, M.classes, M.instances, right)))
                ELSE Raise(RuntimeException(operator, "Incompatible operands."))

\* Interpreter.visit_binary_expr: left, right, then the operator.
visit_binary_expr ==
    /\ Evaluating("Binary")
    /\ Becomes([Machine EXCEPT !.ctrl = Eval(ctrl.e.left),
                               !.kont = Push(@, [k |-> "binary_left", e |-> ctrl.e])])
    /\ LogEval /\ Rest /\ UNCHANGED lastExit

binary_expr_right ==
    /\ Returned("binary_left")
    /\ LET expr == Top(kont).e
       IN  Becomes([Machine EXCEPT
                !.ctrl = Eval(expr.right),
                !.kont = ReplaceTop(@, [k |-> "binary_right", e |-> expr, left |-> ctrl.v])])
    /\ LogEval /\ Rest /\ UNCHANGED lastExit

\* Both operands are known.  For the comma the branch evaluates expr.left
\* and expr.right once more (interpreter.py:77-78).
binary_expr_operator ==
    /\ Returned("binary_right")
    /\ LET f == Top(kont)
       IN  IF f.e.operator.type = "COMMA"
           THEN Becomes([Machine EXCEPT !.ctrl = Eval(f.e.left),
                                        !.kont = ReplaceTop(@, [k |-> "comma_left", e |-> f.e])])
           ELSE Becomes([Machine EXCEPT !.ctrl = BinaryResult(Machine, f.e.operator, f.left, ctrl.v),
                                        !.kont = Pop(@)])
    /\ LogEval /\ Rest /\ UNCHANGED lastExit

comma_expr_right ==
    /\ Returned("comma_left")
    /\ Becomes([Machine EXCEPT !.ctrl = Eval(Top(kont).e.right),
                               !.kont = ReplaceTop(@, [k |-> "comma_right"])])
    /\ LogEval /\ Rest /\ UNCHANGED lastExit

comma_expr_return ==
    /\ Returned("comma_right")
    /\ Becomes([Machine EXCEPT !.kont = Pop(@)])
    /\ LogEval /\ Rest /\ UNCHANGED lastExit

\* A mutant of LogicalSettled: the left operand never settles the expression,
\* the right one is always evaluated.
LogicalSettledNever(operator, left) == FALSE

\* The two tests of Interpreter.visit_logical_expr on the value of the left
\* operand: whether `return left` is taken.
LogicalSettled(operator, left) ==
    \/ operator.type = "OR" /\ Interpreter_is_truthy(left)
    \/ operator.type = "AND" /\ ~Interpreter_is_truthy(left)

\* Interpreter.visit_logical_expr: left, then left itself or right.
visit_logical_expr ==
    /\ Evaluating("Logical")
    /\ Becomes([Machine EXCEPT !.ctrl = Eval(ctrl.e.left),
                               !.kont = Push(@, [k |-> "logical", e |-> ctrl.e])])
    /\ LogEval /\ Rest /\ UNCHANGED lastExit

logical_expr_test ==
    /\ Returned("logical")
    /\ LET expr == Top(kont).e
       IN  Becomes([Machine EXCEPT
                !.ctrl = IF LogicalSettled(expr.operator, ctrl.v) THEN ctrl ELSE Eval(expr.right),
                !.kont = Pop(@)])
    /\ LogEval /\ Rest /\ UNCHANGED lastExit

\* Interpreter.visit_call_expr from `if not isinstance(callee, LoxCallable)`
\* on: the two checks, then callee.call.
CallChecked(M, expr, callee, arguments) ==
    IF ~IsCallable(callee)
    THEN [M EXCEPT !.ctrl = Raise(RuntimeException(expr.paren, "Can only call functions and classes."))]
    ELSE IF Len(arguments) # Arity(M.funs, M.classes, callee)
    THEN [M EXCEPT !.ctrl = Raise(RuntimeException(expr.paren,
                "Expected " \o ToString(Arity(M.funs, M.classes, callee)) \o " arguments, but got "
                \o ToString(Len(arguments)) \o "."))]
    ELSE Invoke(M, callee, arguments)

\* A mutant of call_expr_callee: the checks are made as soon as the callee is
\* known, against the number of argument expressions, before any is evaluated.
call_expr_callee_checks_first(M) ==
    LET expr == Top(M.kont).e
        M1 == [M EXCEPT !.kont = Pop(@)]
    IN  IF ~IsCallable(M.ctrl.v) \/ Len(expr.arguments) # Arity(M.funs, M.classes, M.ctrl.v)
           \/ expr.arguments = <<>>
        THEN CallChecked(M1, expr, M.ctrl.v, expr.arguments)
        ELSE [M EXCEPT !.ctrl = Eval(expr.arguments[1]),
                       !.kont = ReplaceTop(@, [k |-> "call_arguments", e |-> expr,
                                               callee |-> M.ctrl.v, arguments |-> <<>>])]

\* Interpreter.visit_call_expr once the callee is known: the first argument,
\* or the checks when there is none.
call_expr_callee(M) ==
    LET expr == Top(M.kont).e
    IN  IF expr.arguments = <<>>
        THEN CallChecked([M EXCEPT !.kont = Pop(@)], expr, M.ctrl.v, <<>>)
        ELSE [M EXCEPT !.ctrl = Eval(expr.arguments[1]),
                       !.kont = ReplaceTop(@, [k |-> "call_arguments", e |-> expr,
                                               callee |-> M.ctrl.v, arguments |-> <<>>])]

\* Interpreter.visit_call_expr: the callee first.
visit_call_expr ==
    /\ Evaluating("Call")
    /\ Becomes([Machine EXCEPT !.ctrl = Eval(ctrl.e.callee),
                               !.kont = Push(@, [k |-> "call_callee", e |-> ctrl.e])])
    /\ LogEval /\ Rest /\ UNCHANGED lastExit

call_expr_arguments ==
    /\ Returned("call_callee")
    /\ Becomes(call_expr_callee(Machine))
    /\ LogEval /\ Rest /\ UNCHANGED lastExit

\* An argument is known: the next one, or the checks and the call.
call_expr_argument ==
    /\ Returned("call_arguments")
    /\ LET f == Top(kont)
           arguments == Append(f.arguments, ctrl.v)
       IN  IF Len(arguments) < Len(f.e.arguments)
           THEN Becomes([Machine EXCEPT
                    !.ctrl = Eval(f.e.arguments[Len(arguments) + 1]),
                    !.kont = ReplaceTop(@, [f EXCEPT !.arguments = arguments])])
           ELSE Becomes(CallChecked([Machine EXCEPT !.kont = Pop(@)], f.e, f.callee, arguments))
    /\ LogEval /\ Rest /\ UNCHANGED lastExit

\* LoxFunction.call: the body raised Return.
function_call_return ==
    /\ Raising("function_call") /\ ctrl.exc.type = "Return"
    /\ LET fn == Top(kont).fn
       IN  Becomes([Machine EXCEPT
                !.ctrl = Value(IF funs[fn].is_initializer THEN InitializerResult(Machine, fn)
                               ELSE ctrl.exc.value),
                !.kont = Pop(@)])
    /\ LogEval /\ Rest /\ UNCHANGED lastExit

\* LoxFunction.call: the body ran to its end.
function_call_end ==
    /\ Completed("function_call")
    /\ LET fn == Top(kont).fn
       IN  Becomes([Machine EXCEPT
                !.ctrl = Value(IF funs[fn].is_initializer THEN InitializerResult(Machine, fn) ELSE Nil),
                !.kont = Pop(@)])
    /\ LogEval /\ Rest /\ UNCHANGED lastExit

\* LoxClass.call: init returned; the instance is the result.
class_call_return ==
    /\ Returned("class_call")
    /\ Becomes([Machine EXCEPT !.ctrl = Value(InstRef(Top(kont).instance)), !.kont = Pop(@)])
    /\ LogEval /\ Rest /\ UNCHANGED lastExit

\* Interpreter.visit_get_expr: the object, then its property.
visit_get_expr ==
    /\ Evaluating("Get")
    /\ Becomes([Machine EXCEPT !.ctrl = Eval(ctrl.e.object),
                               !.kont = Push(@, [k |-> "get", e |-> ctrl.e])])
    /\ LogEval /\ Rest /\ UNCHANGED lastExit

get_expr_property ==
    /\ Returned("get")
    /\ LET expr == Top(kont).e
           M == [Machine EXCEPT !.kont = Pop(@)]
       IN  IF ctrl.v.t = "inst"
           THEN Becomes(LoxInstance_get(M, ctrl.v.ref, expr.name))
           ELSE Becomes([M EXCEPT !.ctrl = Raise(RuntimeException(expr.name,
                                                "Only instances have properties"))])
    /\ LogEval /\ Rest /\ UNCHANGED lastExit

\* Interpreter.visit_set_expr: the object, the value, then LoxInstance.set.
visit_set_expr ==
    /\ Evaluating("Set")
    /\ Becomes([Machine EXCEPT !.ctrl = Eval(ctrl.e.object),
                               !.kont = Push(@, [k |-> "set_object", e |-> ctrl.e])])
    /\ LogEval /\ Rest /\ UNCHANGED lastExit

set_expr_value ==
    /\ Returned("set_object")
    /\ LET expr == Top(kont).e
       IN  IF ctrl.v.t # "inst"
           THEN Becomes([Machine EXCEPT
                    !.ctrl = Raise(RuntimeException(expr.name, "Only instances have fields.")),
                    !.kont = Pop(@)])
           ELSE Becomes([Machine EXCEPT
                    !.ctrl = Eval(expr.value),
                    !.kont = ReplaceTop(@, [k |-> "set_value", e |-> expr, obj |-> ctrl.v.ref])])
    /\ LogEval /\ Rest /\ UNCHANGED lastExit

set_expr_store ==
    /\ Returned("set_value")
    /\ LET f == Top(kont)
       IN  Becomes([Machine EXCEPT
                !.instances[f.obj].fields = DictSet(@, f.e.name.lexeme, ctrl.v),
                !.kont = Pop(@)])
    /\ LogEval /\ Rest /\ UNCHANGED lastExit

\* A mutant of SuperThisDistance: 'this' is looked for in the frame of 'super'.
SuperThisDistanceSame(distance) == distance

\* Where Interpreter.visit_super_expr looks for 'this': one frame inside the
\* frame that holds 'super'.
SuperThisDistance(distance) == distance - 1

\* Interpreter.visit_super_expr.
Interpreter_visit_super_expr(M, table, expr) ==
    IF expr \notin DOMAIN table
    THEN [M EXCEPT !.ctrl = Raise(PythonError("KeyError"))]
    ELSE LET distance == table[expr]
             superclass == Environment_get_at(M.envs, M.environment, distance, "super")
             obj == Environment_get_at(M.envs, M.environment, SuperThisDistance(distance), "this")
         IN  IF ~superclass.ok \/ ~obj.ok
             THEN [M EXCEPT !.ctrl = Raise(PythonError("AttributeError"))]
             ELSE IF superclass.value.t # "class"
             THEN [M EXCEPT !.ctrl = Raise(PythonError("RuntimeError"))]
             ELSE LET method == LoxClass_find_method(M.classes, superclass.value.ref, expr.method.lexeme)
                  IN  IF method = 0
                      THEN [M EXCEPT !.ctrl = Raise(RuntimeException(expr.method,
                                "Undefined property '" \o expr.method.lexeme \o "'."))]
                      ELSE LET M1 == LoxFunction_bind(M, method, obj.value)
                           IN  [M1 EXCEPT !.ctrl = Value(FunRef(Len(M1.funs)))]

visit_super_expr ==
    /\ Evaluating("Super")
    /\ Becomes(Interpreter_visit_super_expr(Machine, locals, ctrl.e))
    /\ LogEval /\ Rest /\ UNCHANGED lastExit

\* The except clauses of the interpreter: which activation catches what.
Catches(frame, exc) ==
    \/ frame.k = "execute_block"
    \/ frame.k = "while_body" /\ exc.type \in {"Break", "Continue"}
    \/ frame.k = "function_call" /\ exc.type = "Return"
    \/ frame.k = "interpret"

\* An exception leaves an activation that has no handler for it.
propagate ==
    /\ Interpreting /\ ctrl.m = "raise" /\ kont # <<>>
    /\ ~Catches(Top(kont), ctrl.exc)
    /\ Becomes([Machine EXCEPT !.kont = Pop(@)])
    /\ LogEval /\ Rest /\ UNCHANGED lastExit

----------------------------------------------------------------------------
\* Interpreter.interpret and Lox.run.

\* Interpreter.interpret: the loop over the statements of the program.
interpret_next ==
    /\ Completed("interpret")
    /\ Top(kont).i < Len(program)
    /\ Becomes([Machine EXCEPT !.ctrl = Exec(program[Top(kont).i + 1]),
                               !.kont = ReplaceTop(@, [k |-> "interpret", i |-> Top(kont).i + 1])])
    /\ LogEval /\ Rest /\ UNCHANGED lastExit

\* Interpreter.interpret returns after the last statement, and Lox.run with it.
interpret_return ==
    /\ Completed("interpret")
    /\ Top(kont).i = Len(program)
    /\ Becomes([Machine EXCEPT !.ctrl = Halt, !.kont = <<>>])
    /\ phase' = "done"
    /\ UNCHANGED <<scanVars, loxVars, program, stdin, parser, locals, histVars>>

\* Lox.error_runtime.
Lox_error_runtime(rs, error) ==
    Append(rs, [kind |-> "runtime", line |-> error.token.line, where |-> error.token.lexeme,
                msg |-> error.msg])

\* A mutant of interpret_caught: the try inside the loop, which goes on with
\* the next statement.
interpret_caught_in_loop(M) == [M EXCEPT !.ctrl = Normal]

\* Interpreter.interpret after the except clause: the try is around the
\* loop, so interpret returns.
interpret_caught(M) == [M EXCEPT !.ctrl = Halt, !.kont = <<>>]

\* Interpreter.interpret is left by an exception: a RuntimeException is
\* caught and handed to Lox.error_runtime; any other one leaves interpret and
\* Lox.run with it.
interpret_except ==
    /\ Raising("interpret")
    /\ IF ctrl.exc.type = "RuntimeException"
       THEN /\ Becomes(interpret_caught(Machine))
            /\ reports' = Lox_error_runtime(reports, ctrl.exc)
            /\ had_runtime_error' = TRUE
            /\ phase' = IF ctrl'.m = "halt" THEN "done" ELSE phase
            /\ UNCHANGED had_error
       ELSE /\ Becomes([Machine EXCEPT !.kont = <<>>])
            /\ phase' = "raised"
            /\ UNCHANGED loxVars
    /\ UNCHANGED <<scanVars, program, stdin, parser, locals, histVars>>

\* A mutant of ReturnsEarly: Lox.run without its two early returns.
ReturnsNever(flag) == FALSE

\* Lox.run: `if Lox.had_error: return`.
ReturnsEarly(flag) == flag

\* Lox.run after parser.parse(): the first gate, and the resolver pass.
Lox_run_resolve ==
    /\ phase = "parsed"
    /\ IF ReturnsEarly(had_error)
       THEN /\ phase' = "done"
            /\ UNCHANGED <<locals, loxVars>>
       ELSE LET rs == ResolveStmts(program, Resolver_init(locals))
            IN  /\ locals' = rs.locals
                /\ reports' = reports \o rs.errors
                /\ had_error' = (had_error \/ rs.errors # <<>>)
                /\ phase' = "resolved"
                /\ UNCHANGED had_runtime_error
    /\ UNCHANGED <<scanVars, program, stdin, parser, environment, heapVars, ctrl, kont, output, histVars>>

\* Lox.run after resolver.resolve(): the second gate, and the call of
\* Interpreter.interpret.
Lox_run_interpret ==
    /\ phase = "resolved"
    /\ IF ReturnsEarly(had_error)
       THEN /\ phase' = "done"
            /\ UNCHANGED <<ctrl, kont>>
       ELSE /\ phase' = "interpret"
            /\ ctrl' = Normal
            /\ kont' = <<[k |-> "interpret", i |-> 0]>>
    /\ UNCHANGED <<scanVars, loxVars, program, stdin, parser, locals, environment, heapVars, output, histVars>>

----------------------------------------------------------------------------
\* The programs.  A program is the statement list parser.parse() returns;
\* every token of these programs is given an _id (tokens.py:69) of its own,
\* so no two expressions of a program are equal; SpecLocals is without that.

MaxDepth == 2
MaxArgs == 2
MaxCalls == 3

Name(id, lexeme) == Variable(Ident(id, lexeme))
Number(n) == Literal(Num(n))
SetVar(id, lexeme, value) == Expression(Assign(Ident(id, lexeme), value))
Paren(id) == Token(id, "RIGHT_PAREN", ")")
Op(id, type, lexeme) == Token(id, type, lexeme)
Keyword(id, type, lexeme) == Token(id, type, lexeme)
PrintLn(id, e) == Expression(Call(Name(id, "println"), Paren(id + 1), <<e>>))

\* The innermost statements: an assignment to the global g, the three jumps
\* with a statement after them, a runtime error, a local that is declared and
\* read, and a local whose initializer reads the local itself.
Leaves ==
    { <<SetVar(1, "g", Number(1))>>,
      <<Break(Keyword(2, "BREAK", "break")), SetVar(3, "g", Number(2))>>,
      <<Continue(Keyword(4, "CONTINUE", "continue")), SetVar(3, "g", Number(2))>>,
      <<Return(Keyword(5, "RETURN", "return"), NoneNode), SetVar(3, "g", Number(2))>>,
      <<Return(Keyword(6, "RETURN", "return"), Number(7)), SetVar(3, "g", Number(2))>>,
      <<Expression(Binary(Literal(Nil), Op(7, "MINUS", "-"), Number(1))), SetVar(3, "g", Number(2))>>,
      <<Var(Ident(8, "x"), Number(1)), SetVar(9, "g", Name(10, "x"))>>,
      <<Var(Ident(11, "x"), Name(12, "x")), SetVar(9, "g", Name(10, "x"))>> }

\* { body }
InBlock(d, body) == <<Block(body)>>

\* var c = true; while (c) { c = false; body }
InWhile(d, body) ==
    LET c == "c" \o ToString(d)
    IN  <<Var(Ident(100 * d + 1, c), Literal(Bool(TRUE))),
          While(Name(100 * d + 2, c), Block(<<SetVar(100 * d + 3, c, Literal(Bool(FALSE)))>> \o body))>>

\* fun f() { body } f();
InFunction(d, body) ==
    LET f == "f" \o ToString(d)
    IN  <<Function(Ident(100 * d + 4, f), <<>>, body),
          Expression(Call(Name(100 * d + 5, f), Paren(100 * d + 6), <<>>))>>

\* The leaves inside at most d blocks, loops and functions.
RECURSIVE Nested(_)
Nested(d) ==
    IF d = 0 THEN Leaves
    ELSE LET inner == Nested(d - 1)
         IN  inner \cup {InBlock(d, b) : b \in inner} \cup {InWhile(d, b) : b \in inner}
                   \cup {InFunction(d, b) : b \in inner}

\* var g = 0; ... println(g);
NestedPrograms ==
    {<<Var(Ident(90, "g"), Number(0))>> \o b \o <<PrintLn(91, Name(93, "g"))>> : b \in Nested(MaxDepth)}

\* The j-th argument of a call: g = j.
Argument(j) == Assign(Ident(20 + j, "g"), Number(j))

\* var g = 0; fun f(a) { g = 9; } fun k() { g = 8; } callee(g = 1, ..., g = n);
\* with callee one of f, k, g (a number) and println.
CallPrograms ==
    { << Var(Ident(90, "g"), Number(0)),
         Function(Ident(30, "f"), <<Ident(31, "a")>>, <<SetVar(32, "g", Number(9))>>),
         Function(Ident(33, "k"), <<>>, <<SetVar(34, "g", Number(8))>>),
         Expression(Call(Name(35, callee), Paren(36), [j \in 1..n |-> Argument(j)])),
         PrintLn(91, Name(93, "g")) >> : callee \in {"f", "k", "g", "println"}, n \in 0..MaxArgs }

\* var inc; var get;
\* { var n = 0; fun i() { n = n + 1; return n; } fun r() { return n; } inc = i; get = r; }
\* println(inc()); ... (n times) ... println(get());
CounterProgram(n) ==
    << Var(Ident(40, "inc"), NoneNode), Var(Ident(41, "get"), NoneNode),
       Block(<< Var(Ident(42, "n"), Number(0)),
                Function(Ident(43, "i"), <<>>,
                    << SetVar(44, "n", Binary(Name(45, "n"), Op(46, "PLUS", "+"), Number(1))),
                       Return(Keyword(47, "RETURN", "return"), Name(48, "n")) >>),
                Function(Ident(49, "r"), <<>>, <<Return(Keyword(50, "RETURN", "return"), Name(51, "n"))>>),
                SetVar(52, "inc", Name(53, "i")),
                SetVar(54, "get", Name(55, "r")) >>) >>
    \o [j \in 1..n |-> PrintLn(200 + 10 * j, Call(Name(203 + 10 * j, "inc"), Paren(204 + 10 * j), <<>>))]
    \o << PrintLn(60, Call(Name(63, "get"), Paren(64), <<>>)) >>

CounterPrograms == {CounterProgram(n) : n \in 0..MaxCalls}

Method(id, name, body) == Function(Ident(id, name), <<>>, body)
ReturnOf(id, e) == <<Return(Keyword(id, "RETURN", "return"), e)>>
SuperOf(id, name) == Super(Keyword(id, "SUPER", "super"), Ident(id + 1, name))
Property(id, object, name) == Get(Name(id, object), Ident(id + 1, name))

\* What the last statement of a class program prints: a property of b or c,
\* or the result of calling it, or of calling that.
Accesses ==
    { Property(180, "b", "f"), Property(180, "b", "m"), Property(180, "b", "n"),
      Property(180, "b", "z"), Property(180, "c", "m"),
      Call(Property(180, "b", "m"), Paren(182), <<>>),
      Call(Property(180, "b", "t"), Paren(182), <<>>),
      Call(Call(Property(180, "b", "t"), Paren(182), <<>>), Paren(183), <<>>),
      Call(Property(180, "b", "w"), Paren(182), <<>>),
      Call(Property(180, "b", "s"), Paren(182), <<>>),
      Call(Property(180, "c", "v"), Paren(182), <<>>),
      Call(Call(Property(180, "c", "u"), Paren(182), <<>>), Paren(183), <<>>) }

\* class A { m() { return 1; } n() { return 3; } }
\* class B < A { m() { return 2; } t() { return super.m; } w() { return super.z; }
\*               s() { return this; } init() { this.f = 5; } }     (m only if own)
\* class C < B { v() { return super.m; } u() { return super.t; } }
\* var a = B(); var b = B(); var c = C(); b.x = 3; println(access);
ClassProgram(own, access) ==
    << Class(Ident(100, "A"), NoneNode,
             << Method(101, "m", ReturnOf(102, Number(1))),
                Method(103, "n", ReturnOf(104, Number(3))) >>),
       Class(Ident(110, "B"), Name(111, "A"),
             (IF own THEN <<Method(112, "m", ReturnOf(113, Number(2)))>> ELSE <<>>)
             \o << Method(114, "t", ReturnOf(115, SuperOf(116, "m"))),
                   Method(118, "w", ReturnOf(119, SuperOf(120, "z"))),
                   Method(122, "s", ReturnOf(123, This(Keyword(124, "THIS", "this")))),
                   Method(125, "init",
                          <<Expression(Set(This(Keyword(126, "THIS", "this")), Ident(127, "f"), Number(5)))>>) >>),
       Class(Ident(130, "C"), Name(131, "B"),
             << Method(132, "v", ReturnOf(133, SuperOf(134, "m"))),
                Method(136, "u", ReturnOf(137, SuperOf(138, "t"))) >>),
       Var(Ident(140, "a"), Call(Name(141, "B"), Paren(142), <<>>)),
       Var(Ident(143, "b"), Call(Name(144, "B"), Paren(145), <<>>)),
       Var(Ident(146, "c"), Call(Name(147, "C"), Paren(148), <<>>)),
       Expression(Set(Name(150, "b"), Ident(151, "x"), Number(3))),
       PrintLn(160, access) >>

ClassPrograms == {ClassProgram(own, access) : own \in BOOLEAN, access \in Accesses}

\* var g = 0;
\* if (g == 0 or false) g = 1; else g = 2;
\* if (g == 0 and true) g = 3;
\* class D < g {}            (only if bad: the superclass is no class)
\* g = (g = g + 1, g);
\* println(g);
OtherProgram(bad) ==
    << Var(Ident(90, "g"), Number(0)),
       If(Logical(Binary(Name(70, "g"), Op(71, "EQUAL_EQUAL", "=="), Number(0)),
                  Op(72, "OR", "or"), Literal(Bool(FALSE))),
          SetVar(73, "g", Number(1)), SetVar(74, "g", Number(2))),
       If(Logical(Binary(Name(75, "g"), Op(76, "EQUAL_EQUAL", "=="), Number(0)),
                  Op(77, "AND", "and"), Literal(Bool(TRUE))),
          SetVar(78, "g", Number(3)), NoneNode) >>
    \o (IF bad THEN <<Class(Ident(79, "D"), Name(80, "g"), <<>>)>> ELSE <<>>)
    \o << SetVar(81, "g", Binary(Assign(Ident(82, "g"),
                                        Binary(Name(83, "g"), Op(84, "PLUS", "+"), Number(1))),
                                 Op(85, "COMMA", ","), Name(86, "g"))),
          PrintLn(91, Name(93, "g")) >>

OtherPrograms == {OtherProgram(bad) : bad \in BOOLEAN}

\* The left operands of the logical programs: the two falsy values, and
\* three truthy ones of which two are falsy in other languages.
LogicalLefts == {Nil, Bool(FALSE), Bool(TRUE), Num(0), Str("")}

\* var g = 1; println(left or (g = 5)); println(g);        (or: and)
LogicalProgram(type, left) ==
    << Var(Ident(90, "g"), Number(1)),
       PrintLn(300, Logical(Literal(left), Op(302, type, IF type = "OR" THEN "or" ELSE "and"),
                            Assign(Ident(303, "g"), Number(5)))),
       PrintLn(91, Name(93, "g")) >>

LogicalPrograms == {LogicalProgram(type, left) : type \in {"OR", "AND"}, left \in LogicalLefts}

\* var g = 0; var g = 1; println(g);
RedeclareProgram ==
    << Var(Ident(90, "g"), Number(0)), Var(Ident(94, "g"), Number(1)), PrintLn(91, Name(93, "g")) >>

\* var x = 1; { var x = x; println(x); }            (the outer x a global)
\* { var x = 1; { var x = x; println(x); } }        (the outer x a local)
ShadowProgram(global) ==
    LET outer == Var(Ident(310, "x"), Number(1))
        inner == Block(<<Var(Ident(311, "x"), Name(312, "x")), PrintLn(313, Name(315, "x"))>>)
    IN  IF global THEN <<outer, inner>> ELSE <<Block(<<outer, inner>>)>>

VarPrograms == {RedeclareProgram} \cup {ShadowProgram(global) : global \in BOOLEAN}

\* How the init of an initializer program ends: it falls through, or it
\* executes `return;`, or `return 1;`.
InitializerEnds == {"falls", "return", "return 1"}

\* What the last statement of an initializer program prints.
InitializerAccesses ==
    LET Eq(l, r) == Binary(l, Op(340, "EQUAL_EQUAL", "=="), r)
        init == Call(Property(341, "p", "init"), Paren(343), <<Number(8)>>)
    IN  { Property(341, "p", "f"),
          init,
          Get(init, Ident(344, "f")),
          Eq(Name(345, "p"), Name(346, "p")),
          Eq(Name(345, "p"), Name(346, "q")),
          Binary(Name(345, "p"), Op(340, "BANG_EQUAL", "!="), Name(346, "q")),
          Eq(Name(345, "p"), Name(346, "r")),
          Eq(Name(345, "P"), Name(346, "P")),
          Eq(Name(345, "println"), Name(346, "println")),
          Eq(Property(341, "p", "m"), Property(347, "p", "m")),
          Eq(Property(341, "p", "m"), Property(347, "q", "m")),
          Eq(Property(341, "p", "m"), Property(347, "r", "m")),
          Eq(Name(345, "p"), Number(7)) }

\* class P { init(a) { this.f = a; return; } m() { return 1; } }   (return as end says)
\* var p = P(7); var q = P(7); var r = P(9); println(access);
InitializerProgram(end, access) ==
    << Class(Ident(320, "P"), NoneNode,
             << Function(Ident(321, "init"), <<Ident(322, "a")>>,
                    <<Expression(Set(This(Keyword(323, "THIS", "this")), Ident(324, "f"), Name(325, "a")))>>
                    \o (CASE end = "falls" -> <<>>
                          [] end = "return" -> <<Return(Keyword(326, "RETURN", "return"), NoneNode)>>
                          [] end = "return 1" -> <<Return(Keyword(326, "RETURN", "return"), Number(1))>>)),
                Method(327, "m", ReturnOf(328, Number(1))) >>),
       Var(Ident(330, "p"), Call(Name(331, "P"), Paren(332), <<Number(7)>>)),
       Var(Ident(333, "q"), Call(Name(334, "P"), Paren(335), <<Number(7)>>)),
       Var(Ident(336, "r"), Call(Name(337, "P"), Paren(338), <<Number(9)>>)),
       PrintLn(350, access) >>

InitializerPrograms ==
    {InitializerProgram(end, access) : end \in InitializerEnds, access \in InitializerAccesses}

Programs ==
    NestedPrograms \cup CallPrograms \cup CounterPrograms \cup ClassPrograms \cup OtherPrograms
    \cup LogicalPrograms \cup VarPrograms \cup InitializerPrograms

----------------------------------------------------------------------------
\* The specifications.

\* Interpreter.__init__: the globals hold the three natives.
Interpreter_init_envs ==
    <<[enclosing |-> 0,
       values |-> DictSet(DictSet(DictSet(EmptyDict, "clock", Native("clock")),
                                  "print", Native("print")), "println", Native("println"))]>>

\* The interpreter of a fresh Lox, before its first run.
InitInterpreter ==
    /\ environment = GLOBALS
    /\ locals = EmptyDict
    /\ envs = Interpreter_init_envs
    /\ funs = <<>>
    /\ classes = <<>>
    /\ instances = <<>>
    /\ ctrl = Halt
    /\ kont = <<>>
    /\ output = <<>>
    /\ evalLog = <<>>
    /\ lastExit = [how |-> "none", entered |-> 0, left |-> 0, depth |-> 0]

\* Lox.run on a source whose statement list is program, at the return of
\* parser.parse(): scanning or parsing has reported an error or none (a
\* character that starts no token is reported and skipped, and the statements
\* around it are parsed all the same).
Init ==
    /\ program \in Programs
    /\ phase = "parsed"
    /\ stdin = <<>>
    /\ parser = ParserIdle
    /\ had_error \in BOOLEAN
    /\ had_runtime_error = FALSE
    /\ reports = IF had_error THEN ReportLine(<<>>, 1, "Unexpected character, @.") ELSE <<>>
    /\ source = <<>>
    /\ start = 0
    /\ current = 0
    /\ line = 1
    /\ tokens = <<>>
    /\ scanPc = "returned"
    /\ scanExc = ""
    /\ InitInterpreter

\* The steps of Interpreter.interpret.
Interpret ==
    \/ interpret_next \/ interpret_return \/ interpret_except
    \/ visit_block_stmt \/ execute_block_next \/ execute_block_exit
    \/ visit_break_stmt \/ visit_continue_stmt
    \/ visit_expression_stmt \/ expression_stmt_return
    \/ visit_function_stmt
    \/ visit_if_stmt \/ if_stmt_branch
    \/ visit_return_stmt \/ return_stmt_raise
    \/ visit_var_stmt \/ var_stmt_initialize
    \/ visit_while_stmt \/ while_stmt_test \/ while_stmt_again \/ while_stmt_break
    \/ visit_class_stmt \/ class_stmt_define
    \/ visit_literal_expr \/ visit_variable_expr \/ visit_this_expr
    \/ visit_assign_expr \/ assign_expr_store
    \/ visit_binary_expr \/ binary_expr_right \/ binary_expr_operator
    \/ comma_expr_right \/ comma_expr_return
    \/ visit_logical_expr \/ logical_expr_test
    \/ visit_call_expr \/ call_expr_arguments \/ call_expr_argument
    \/ function_call_return \/ function_call_end \/ class_call_return
    \/ visit_get_expr \/ get_expr_property
    \/ visit_set_expr \/ set_expr_value \/ set_expr_store
    \/ visit_super_expr
    \/ propagate

Next == Lox_run_resolve \/ Lox_run_interpret \/ Interpret

Spec == Init /\ [][Next]_vars

\* Scanner.__init__ on the source of a fresh Lox.
InitScan ==
    /\ source \in Sources
    /\ start = 0
    /\ current = 0
    /\ line = 1
    /\ tokens = <<>>
    /\ scanPc = "scanning"
    /\ scanExc = ""
    /\ had_error = FALSE
    /\ had_runtime_error = FALSE
    /\ reports = <<>>
    /\ program = <<>>
    /\ phase = "scan"
    /\ stdin = <<>>
    /\ parser = ParserIdle
    /\ InitInterpreter

NextScan == Scanner_scan_token \/ Scanner_scan_return

SpecScan == InitScan /\ [][NextScan]_vars

\* Scanner.scan runs on as long as it can.
FairSpecScan == SpecScan /\ WF_vars(NextScan)

----------------------------------------------------------------------------
\* Properties.

\* C1: whenever Interpreter.execute_block finishes, by running all its
\* statements or because a Return, Break, Continue or runtime error leaves it,
\* the interpreter's current frame is the frame that was current immediately
\* before the call, at every depth of blocks and calls.
C1_BlockExitRestoresFrame ==
    lastExit.how # "none" => lastExit.left = lastExit.entered

\* A runtime error has just left an execute_block that ran inside another
\* one, and the frame is the one of before the call.
C1_Witness ==
    /\ lastExit.how = "RuntimeException"
    /\ lastExit.depth >= 2
    /\ ctrl.m = "raise"
    /\ environment = lastExit.entered

\* The frame the resolver's distance for expr leads to from the current
\* frame, 0 if the chain of frames ends before.
ResolvedFrame(expr) == Environment_ancestor(envs, environment, locals[expr])

\* The frame the distance leads to exists and holds the name.
BoundAtDistance(expr, name) ==
    /\ ResolvedFrame(expr) # 0
    /\ name \in DOMAIN envs[ResolvedFrame(expr)].values


\* C2: for every Variable, Assign, This or Super expression the resolver gave
\* a distance d, at every evaluation of the expression the frame d enclosing
\* links up from the current frame exists and already holds a binding for the
\* expression's name.  (A Variable, This or Super looks its name up as it is
\* entered, an Assign once its value is known.)
C2_ResolvedNameIsBound ==
    /\ (/\ Interpreting /\ ctrl.m = "eval"
        /\ ctrl.e.node \in {"Variable", "This", "Super"}
        /\ ctrl.e \in DOMAIN locals)
       => BoundAtDistance(ctrl.e, IF ctrl.e.node = "Variable" THEN ctrl.e.name.lexeme
                                  ELSE ctrl.e.keyword.lexeme)
    /\ (Returned("assign") /\ Top(kont).e \in DOMAIN locals)
       => BoundAtDistance(Top(kont).e, Top(kont).e.name.lexeme)

\* C3: in a program the resolver accepted, a Return that propagates is
\* inside a LoxFunction.call, which catches it, and a Break or Continue that
\* propagates is inside a While with no function call between the loop and
\* the jump: none crosses a call boundary, none reaches Interpreter.interpret.
C3_JumpsStayInScope ==
    (Interpreting /\ ctrl.m = "raise") =>
        /\ ctrl.exc.type = "Return" =>
              \E i \in 1..Len(kont) : kont[i].k = "function_call"
        /\ ctrl.exc.type \in {"Break", "Continue"} =>
              \E i \in 1..Len(kont) :
                  /\ kont[i].k = "while_body"
                  /\ \A j \in (i + 1)..Len(kont) : kont[j].k # "function_call"

\* A Break propagates in a loop that runs inside a function call.
C3_Witness ==
    /\ Interpreting /\ ctrl.m = "raise" /\ ctrl.exc.type = "Break"
    /\ ~had_error
    /\ \E i \in 1..Len(kont) : \E j \in (i + 1)..Len(kont) :
          kont[i].k = "function_call" /\ kont[j].k = "while_body"

\* A static error has been reported: by the scanner, the parser or the resolver.
StaticReported == \E i \in 1..Len(reports) : reports[i].kind = "static"

\* C4: Interpreter.interpret is entered only if no error was reported while
\* scanning, parsing or resolving the source; after any static error no
\* statement of the source is executed.
C4_StaticErrorGatesExecution ==
    /\ phase \in {"interpret", "raised"} => ~had_error /\ ~StaticReported
    /\ StaticReported => had_error
    /\ had_error => ctrl.m = "halt" /\ kont = <<>> /\ evalLog = <<>> /\ output = <<>>
                    /\ envs = Interpreter_init_envs /\ funs = <<>>

\* Lox.run has returned at its second gate: scanning and parsing reported
\* nothing, the resolver did, and nothing was executed.
C4_Witness ==
    /\ phase = "done"
    /\ had_error
    /\ reports # <<>>
    /\ reports[1].msg = "Can't break from outside of loop."
    /\ ctrl.m = "halt" /\ output = <<>>

\* How many runtime errors have been reported.
RuntimeReports(rs) == Cardinality({i \in 1..Len(rs) : rs[i].kind = "runtime"})

\* C5: within one call of Interpreter.interpret, when a statement raises a
\* runtime error, the error propagates unchanged to interpret, is reported
\* exactly once, had_runtime_error is set, interpret returns, and no
\* statement is executed after it.
C5_RuntimeErrorHalts ==
    /\ [](had_runtime_error <=> RuntimeReports(reports) = 1)
    /\ [](had_runtime_error => phase = "done" /\ ctrl.m = "halt")
    /\ [][/\ ctrl'.m = "exec" => ~had_runtime_error /\ RuntimeReports(reports) = 0
          /\ RuntimeReports(reports') <= 1
          /\ (Interpreting /\ ctrl.m = "raise" /\ ctrl.exc.type = "RuntimeException") =>
                IF Top(kont).k = "interpret"
                THEN had_runtime_error' /\ RuntimeReports(reports') = 1 /\ ctrl'.m = "halt"
                     /\ reports'[Len(reports')].where = ctrl.exc.token.lexeme
                     /\ reports'[Len(reports')].msg = ctrl.exc.msg
                ELSE ctrl' = ctrl /\ ~had_runtime_error']_vars

\* interpret has returned after a runtime error in a program whose last
\* statement prints: one report, nothing printed.
C5_Witness ==
    /\ phase = "done"
    /\ had_runtime_error
    /\ RuntimeReports(reports) = 1
    /\ program[Len(program)].expression.node = "Call"
    /\ output = <<>>


\* C6: for any source text Scanner.scan terminates and returns a token list
\* that holds exactly one EOF token, the last element of the list.
C6_ScanReturnsOneEOF ==
    <>(/\ scanPc = "returned"
       /\ tokens # <<>>
       /\ tokens[Len(tokens)].type = "EOF"
       /\ Cardinality({i \in 1..Len(tokens) : tokens[i].type = "EOF"}) = 1)

\* The first place after p where log holds e, 0 if there is none.
FirstAfter(log, p, e) ==
    LET later == {i \in (p + 1)..Len(log) : log[i] = e}
    IN  IF later = {} THEN 0 ELSE CHOOSE i \in later : \A j \in later : i <= j

\* The last place where log holds e, 0 if there is none.
LastOf(log, e) ==
    LET at == {i \in 1..Len(log) : log[i] = e}
    IN  IF at = {} THEN 0 ELSE CHOOSE i \in at : \A j \in at : i >= j

\* Since _evaluate was last entered for the call, it was entered for the
\* callee and then for each argument, in the order of the argument list.
EvaluatedInOrder(log, call) ==
    LET Place[j \in 0..Len(call.arguments)] ==
            IF j = 0 THEN FirstAfter(log, LastOf(log, call), call.callee)
            ELSE IF Place[j - 1] = 0 THEN 0
            ELSE FirstAfter(log, Place[j - 1], call.arguments[j])
    IN  LastOf(log, call) # 0 /\ \A j \in 0..Len(call.arguments) : Place[j] # 0

\* This step ends the evaluation of the operands of a call: what follows is
\* the checks and, if they pass, callee.call.
CallDecided ==
    /\ Returned("call_callee") \/ Returned("call_arguments")
    /\ ~(Len(kont') >= Len(kont) /\ kont'[Len(kont)].k = "call_arguments")

\* C7: a call evaluates the callee, then every argument from left to right,
\* and only then checks that the callee is callable and that the number of
\* arguments is its arity; if a check fails a runtime error is raised at the
\* closing parenthesis and the body of the callee is not executed.
C7_ArgumentsBeforeChecks ==
    [][CallDecided =>
        LET f == Top(kont)
            callee == IF f.k = "call_callee" THEN ctrl.v ELSE f.callee
            n == IF f.k = "call_callee" THEN 0 ELSE Len(f.arguments) + 1
        IN  /\ n = Len(f.e.arguments)
            /\ EvaluatedInOrder(evalLog, f.e)
            /\ (~IsCallable(callee) \/ n # Arity(funs, classes, callee)) =>
                  /\ ctrl'.m = "raise"
                  /\ ctrl'.exc.type = "RuntimeException"
                  /\ ctrl'.exc.token = f.e.paren
                  /\ kont' = Pop(kont)
                  /\ <<environment, envs, funs, classes, instances, output>>'
                        = <<environment, envs, funs, classes, instances, output>>
            /\ (IsCallable(callee) /\ n = Arity(funs, classes, callee)) => ctrl'.m # "raise"]_vars

\* f, of one parameter, was called with two arguments: both were evaluated,
\* the second last (g is 2), the error is raised and the body (g = 9) not run.
C7_Witness ==
    /\ Interpreting /\ ctrl.m = "raise"
    /\ ctrl.exc.type = "RuntimeException"
    /\ ctrl.exc.msg = "Expected 1 arguments, but got 2."
    /\ envs[GLOBALS].values["g"] = Num(2)
    /\ LastOf(evalLog, Argument(1)) # 0
    /\ LastOf(evalLog, Argument(1)) < LastOf(evalLog, Argument(2))

\* This step enters LoxFunction.call: the activation of the function and the
\* execute_block of its body are new on the stack.
FunctionEntered ==
    /\ Interpreting
    /\ Len(kont') > Len(kont)
    /\ Len(kont') >= 2
    /\ Top(kont').k = "execute_block" /\ Top(kont').i = 0
    /\ kont'[Len(kont') - 1].k = "function_call"

\* What the counter program prints in its j-th line when it calls inc n
\* times and then get: 1, 2, ..., n and n once more.
CounterLine(j, n) == ToString(IF j <= n THEN j ELSE n) \o "\n"

\* C8: each call of a LoxFunction runs the body in fresh frames whose chain
\* of enclosing frames leads to the frame that was current when the function
\* was declared; an assignment the body makes to a variable of that frame
\* lasts beyond the call, for later calls and for the other functions over
\* the same frame: a counter called n times returns 1, 2, ..., n.
C8_ClosureFrameShared ==
    /\ [][/\ Executing("Function") =>
                funs'[Len(funs')].closure = environment
          /\ FunctionEntered =>
                LET fn == kont'[Len(kont') - 1].fn
                IN  /\ environment' > Len(envs)
                    /\ envs'[environment'].enclosing > Len(envs)
                    /\ envs'[envs'[environment'].enclosing].enclosing = funs'[fn].closure]_vars
    /\ [](program \in CounterPrograms =>
            LET n == Len(program) - 4
            IN  /\ Len(output) <= n + 1
                /\ \A j \in 1..Len(output) : output[j] = CounterLine(j, n)
                /\ (phase = "done" /\ ~had_error) => Len(output) = n + 1 /\ ~had_runtime_error)

\* The counter was called twice or more and then read: all lines are printed.
C8_Witness ==
    /\ program \in CounterPrograms
    /\ Len(program) >= 6
    /\ phase = "done"
    /\ Len(output) = Len(program) - 3
    /\ output[2] = "2\n"
    /\ output[Len(output)] = output[Len(output) - 1]


\* The class declaration of the program that declares the class of this name.
ClassStmt(name) ==
    program[CHOOSE i \in 1..Len(program) : program[i].node = "Class" /\ program[i].name.lexeme = name]

\* The method of this name the class declaration itself holds, None if none.
OwnMethod(stmt, name) ==
    LET own == {j \in 1..Len(stmt.methods) : stmt.methods[j].name.lexeme = name}
    IN  IF own = {} THEN NoneNode ELSE stmt.methods[CHOOSE j \in own : \A k \in own : j >= k]

\* The first method of this name on the way from the class up through its
\* declared superclasses, None if no class of the chain declares one.
RECURSIVE ChainMethod(_, _)
ChainMethod(class, name) ==
    LET stmt == ClassStmt(class)
    IN  IF OwnMethod(stmt, name) # NoneNode THEN OwnMethod(stmt, name)
        ELSE IF stmt.superclass # NoneNode THEN ChainMethod(stmt.superclass.name.lexeme, name)
        ELSE NoneNode

\* The step returned a method with this declaration, bound to this object.
YieldsBound(declaration, object) ==
    /\ ctrl'.m = "value"
    /\ ctrl'.v.t = "fun"
    /\ funs'[ctrl'.v.ref].declaration = declaration
    /\ "this" \in DOMAIN envs'[funs'[ctrl'.v.ref].closure].values
    /\ envs'[funs'[ctrl'.v.ref].closure].values["this"] = object

\* The step raised the runtime error "Undefined property" at this name.
RaisesUndefinedProperty(name) ==
    ctrl' = Raise(RuntimeException(name, "Undefined property '" \o name.lexeme \o "'."))

\* C9: a property that is no field of the instance is looked up as a method
\* along the whole inheritance chain of the instance's class: the first
\* method found is returned bound to the instance, and "Undefined property"
\* is raised only when no class of the chain declares the name.
C9_MethodsAreInherited ==
    [][(/\ Returned("get")
        /\ ctrl.v.t = "inst"
        /\ Top(kont).e.name.lexeme \notin DOMAIN instances[ctrl.v.ref].fields) =>
          LET name == Top(kont).e.name
              declaration == ChainMethod(classes[instances[ctrl.v.ref].klass].name, name.lexeme)
          IN  IF declaration = NoneNode
              THEN RaisesUndefinedProperty(name)
              ELSE YieldsBound(declaration, ctrl.v)]_vars

\* What `this` denotes in the frame env: the binding of the nearest frame
\* that holds one.
RECURSIVE ThisOf(_, _)
ThisOf(es, env) ==
    IF env = 0 THEN Nil
    ELSE IF "this" \in DOMAIN es[env].values THEN es[env].values["this"]
    ELSE ThisOf(es, es[env].enclosing)

\* The class declaration one of whose methods returns this expression.
DeclaringClass(expr) ==
    program[CHOOSE i \in 1..Len(program) :
        /\ program[i].node = "Class"
        /\ \E j \in 1..Len(program[i].methods) :
              \E b \in 1..Len(program[i].methods[j].body) :
                  /\ program[i].methods[j].body[b].node = "Return"
                  /\ program[i].methods[j].body[b].value = expr]

\* C10: super.m in a method of a subclass yields the method m of the class's
\* declared superclass (the method that class itself declares, as
\* find_method finds it), bound to the instance `this` denotes in the
\* executing method; if the superclass has no method m, the runtime error
\* "Undefined property" is raised.
C10_SuperMethodBoundToThis ==
    [][Evaluating("Super") =>
          LET superclass == ClassStmt(DeclaringClass(ctrl.e).superclass.name.lexeme)
              declaration == OwnMethod(superclass, ctrl.e.method.lexeme)
          IN  /\ ThisOf(envs, environment).t = "inst"
              /\ IF declaration = NoneNode
                 THEN RaisesUndefinedProperty(ctrl.e.method)
                 ELSE YieldsBound(declaration, ThisOf(envs, environment))]_vars

\* super.m in t of B, called on b, the second instance of B: the m of A, bound to b.
C10_Witness ==
    /\ Interpreting /\ ctrl.m = "value" /\ ctrl.v.t = "fun"
    /\ evalLog # <<>>
    /\ evalLog[Len(evalLog)].node = "Super"
    /\ funs[ctrl.v.ref].declaration = OwnMethod(ClassStmt("A"), "m")
    /\ envs[funs[ctrl.v.ref].closure].values["this"] = InstRef(2)
    /\ classes[instances[2].klass].name = "B"


\* The step is the Environment.initialize of a `var` statement: the
\* statement has no initializer, or its initializer has been evaluated.
VarInitializes ==
    \/ Executing("Var") /\ ctrl.s.initializer = NoneNode
    \/ Returned("var_stmt")

\* The name token of the `var` statement of such a step.
VarName == IF ctrl.m = "exec" THEN ctrl.s.name ELSE Top(kont).s.name

\* C16: executing a `var` declaration whose name the current frame already
\* holds (the globals included) raises the runtime error "Cannot
\* reinitialize a variable" and leaves the binding as it was.
C16_ReinitializeRaises ==
    [][(VarInitializes /\ VarName.lexeme \in DOMAIN envs[environment].values) =>
          /\ ctrl'.m = "raise"
          /\ ctrl'.exc.type = "RuntimeException"
          /\ ctrl'.exc.msg = "Cannot reinitialize a variable"
          /\ envs' = envs]_vars

\* C17: in a block, when `var x = x;` has evaluated its initializer and an
\* enclosing frame (or the globals) holds an x, the resolver has not bound
\* the initializer's x to the block's own scope and the value read is the
\* value of that outer x.
C17_InitializerReadsOuter ==
    (/\ Returned("var_stmt")
     /\ environment # GLOBALS
     /\ Top(kont).s.initializer.node = "Variable"
     /\ Top(kont).s.initializer.name.lexeme = Top(kont).s.name.lexeme
     /\ Environment_get(envs, envs[environment].enclosing, Top(kont).s.name).ok) =>
        /\ Top(kont).s.initializer \in DOMAIN locals => locals[Top(kont).s.initializer] >= 1
        /\ ctrl.v = Environment_get(envs, envs[environment].enclosing, Top(kont).s.name).value

RECURSIVE ReturnsOfStmt(_, _)
RECURSIVE ReturnsOfStmts(_, _)

\* The return statements of a statement, each with the kind of the innermost
\* function, method or initializer body it is in ("NONE" outside all).
ReturnsOfStmt(s, function) ==
    CASE s.node = "Return" -> {[stmt |-> s, function |-> function]}
      [] s.node = "Block" -> ReturnsOfStmts(s.statements, function)
      [] s.node = "Function" -> ReturnsOfStmts(s.body, "FUNCTION")
      [] s.node = "Class" ->
            UNION {ReturnsOfStmts(s.methods[j].body,
                                  IF s.methods[j].name.lexeme = "init" THEN "INITIALIZER" ELSE "METHOD")
                   : j \in 1..Len(s.methods)}
      [] s.node = "If" ->
            ReturnsOfStmt(s.then_branch, function)
            \cup (IF s.else_branch = NoneNode THEN {} ELSE ReturnsOfStmt(s.else_branch, function))
      [] s.node = "While" -> ReturnsOfStmt(s.body, function)
      [] OTHER -> {}

ReturnsOfStmts(stmts, function) ==
    UNION {ReturnsOfStmt(stmts[j], function) : j \in 1..Len(stmts)}

\* How many diagnostics carry this message.
Reported(msg) == Cardinality({i \in 1..Len(reports) : reports[i].msg = msg})

\* C18: when the resolver has run, "Can't return from top-level code." has
\* been reported once for each return statement outside every function,
\* method and initializer body and for no other (so not for a `return;` in
\* init), and "Can't return a value from an initializer." once for each
\* return in an initializer that carries a value and for no other.
C18_ReturnDiagnostics ==
    phase = "resolved" =>
        LET returns == ReturnsOfStmts(program, "NONE")
        IN  /\ Reported("Can't return from top-level code.")
                = Cardinality({r \in returns : r.function = "NONE"})
            /\ Reported("Can't return a value from an initializer.")
                = Cardinality({r \in returns : r.function = "INITIALIZER" /\ r.stmt.value # NoneNode})

\* How often the log holds e.
Occurrences(log, e) == Cardinality({i \in 1..Len(log) : log[i] = e})

\* The comma expressions _evaluate has been entered for.
CommasEvaluated ==
    {evalLog[i] : i \in {j \in 1..Len(evalLog) :
        evalLog[j].node = "Binary" /\ evalLog[j].operator.type = "COMMA"}}

\* C19: a comma expression `l, r` evaluates l once and r once for each of
\* its evaluations: _evaluate is never entered for l or for r more often than
\* for the comma expression itself.
C19_CommaOperandsOnce ==
    \A e \in CommasEvaluated :
        /\ Occurrences(evalLog, e.left) <= Occurrences(evalLog, e)
        /\ Occurrences(evalLog, e.right) <= Occurrences(evalLog, e)

\* What a logical program prints: the value that settles the expression, as
\* println writes it, and then g, which the right operand sets to 5.
LogicalExpected(type, left) ==
    LET falsy == left \in {Nil, Bool(FALSE)}
        settled == IF type = "OR" THEN ~falsy ELSE falsy
        text == CASE left = Nil -> "nil"
                  [] left = Bool(FALSE) -> "false"
                  [] left = Bool(TRUE) -> "true"
                  [] left = Num(0) -> "0"
                  [] left = Str("") -> ""
    IN  IF settled THEN <<text \o "\n", "1\n">> ELSE <<"5\n", "5\n">>

\* C20: `a or b` returns the value of a without evaluating b when a is
\* truthy and the value of b otherwise; `a and b` returns the value of a
\* without evaluating b when a is falsy and the value of b otherwise; a is
\* evaluated once and the result is the operand's value, not a boolean made
\* of it (0 and "" are truthy and are returned as they are).
C20_LogicalShortCircuits ==
    /\ [][Returned("logical") =>
            LET expr == Top(kont).e
                falsy == ctrl.v \in {Nil, Bool(FALSE)}
                settled == IF expr.operator.type = "OR" THEN ~falsy ELSE falsy
            IN  /\ kont' = Pop(kont)
                /\ ctrl' = IF settled THEN Value(ctrl.v) ELSE Eval(expr.right)
                /\ Occurrences(evalLog, expr.left) = Occurrences(evalLog, expr)]_vars
    /\ [](program \in LogicalPrograms /\ phase = "done" /\ ~had_error =>
            LET expr == program[2].expression.arguments[1]
            IN  /\ output = LogicalExpected(expr.operator.type, expr.left.value)
                /\ Occurrences(evalLog, expr.left) = 1
                /\ Occurrences(evalLog, expr.right) = (IF output[2] = "5\n" THEN 1 ELSE 0))

\* `0 or (g = 5)` has printed 0 and left g alone, and the run is over.
C20_Witness ==
    /\ program = LogicalProgram("OR", Num(0))
    /\ phase = "done"
    /\ output = <<"0\n", "1\n">>
    /\ evalLog # <<>>


----------------------------------------------------------------------------
\* Interpreter.interpret as a caller of the Interpreter class reaches it who
\* runs Resolver.resolve on the statements and does not stop at its
\* diagnostics.

\* The diagnostics of the resolver on a program.
ResolverErrors(stmts) == ResolveStmts(stmts, Resolver_init(EmptyDict)).errors

\* The programs in which the resolver finds nothing, or nothing but the
\* value-less return statements of initializers.
InterpretedPrograms ==
    {p \in Programs :
        /\ \A i \in 1..Len(ResolverErrors(p)) :
              ResolverErrors(p)[i].msg = "Can't return from top-level code."
        /\ \A r \in ReturnsOfStmts(p, "NONE") : r.function # "NONE"}

InitInterpret ==
    /\ program \in InterpretedPrograms
    /\ phase = "resolved"
    /\ stdin = <<>>
    /\ parser = ParserIdle
    /\ had_error = FALSE
    /\ had_runtime_error = FALSE
    /\ reports = <<>>
    /\ source = <<>>
    /\ start = 0
    /\ current = 0
    /\ line = 1
    /\ tokens = <<>>
    /\ scanPc = "returned"
    /\ scanExc = ""
    /\ environment = GLOBALS
    /\ locals = ResolveStmts(program, Resolver_init(EmptyDict)).locals
    /\ envs = Interpreter_init_envs
    /\ funs = <<>>
    /\ classes = <<>>
    /\ instances = <<>>
    /\ ctrl = Halt
    /\ kont = <<>>
    /\ output = <<>>
    /\ evalLog = <<>>
    /\ lastExit = [how |-> "none", entered |-> 0, left |-> 0, depth |-> 0]

NextInterpret == Lox_run_interpret \/ Interpret

SpecInterpret == InitInterpret /\ [][NextInterpret]_vars

\* The step is LoxClass.call: it allocates an instance.
ClassCalled == Interpreting /\ Len(instances') = Len(instances) + 1

\* The activation of LoxFunction.call at place j of the stack runs this
\* declaration with `this` bound to this instance in its closure.
BoundCall(k, fs, es, j, declaration, instance) ==
    /\ k[j].k = "function_call"
    /\ fs[k[j].fn].declaration = declaration
    /\ fs[k[j].fn].is_initializer
    /\ "this" \in DOMAIN es[fs[k[j].fn].closure].values
    /\ es[fs[k[j].fn].closure].values["this"] = InstRef(instance)

\* C11: calling a class allocates one fresh instance, without fields,
\* invokes init, when the class has one, once, bound to that instance and
\* with the arguments of the call, and returns that instance; every
\* invocation of an initializer returns the instance bound as `this` in its
\* closure, whether its body falls through or executes a return.
C11_ClassCallReturnsInstance ==
    /\ [][/\ ClassCalled =>
                LET f == Top(kont)
                    callee == IF f.k = "call_callee" THEN ctrl.v ELSE f.callee
                    arguments == IF f.k = "call_callee" THEN <<>> ELSE Append(f.arguments, ctrl.v)
                    instance == Len(instances) + 1
                    n == Len(kont')
                IN  /\ callee.t = "class"
                    /\ instances' = Append(instances, [klass |-> callee.ref, fields |-> <<>>])
                    /\ IF "init" \in DOMAIN classes[callee.ref].methods
                       THEN LET declaration == funs[classes[callee.ref].methods["init"]].declaration
                                parameters == envs'[environment'].enclosing
                            IN  /\ n = Len(kont) + 2
                                /\ kont'[n - 2] = [k |-> "class_call", instance |-> instance]
                                /\ BoundCall(kont', funs', envs', n - 1, declaration, instance)
                                /\ kont'[n - 1].fn > Len(funs)
                                /\ kont'[n].k = "execute_block"
                                /\ kont'[n].statements = declaration.body
                                /\ \A j \in 1..Len(declaration.parameters) :
                                      envs'[parameters].values[declaration.parameters[j].lexeme] = arguments[j]
                       ELSE ctrl' = Value(InstRef(instance)) /\ kont' = Pop(kont)
          /\ Returned("class_call") =>
                ctrl' = Value(InstRef(Top(kont).instance)) /\ kont' = Pop(kont)
          /\ (/\ Interpreting /\ kont # <<>> /\ Top(kont).k = "function_call"
              /\ funs[Top(kont).fn].is_initializer
              /\ ctrl.m = "normal" \/ (ctrl.m = "raise" /\ ctrl.exc.type = "Return")) =>
                /\ ctrl'.m = "value"
                /\ ctrl'.v.t = "inst"
                /\ ctrl'.v = envs[funs[Top(kont).fn].closure].values["this"]
                /\ kont' = Pop(kont)]_vars
    /\ [](\A j \in 1..Len(kont) : kont[j].k = "class_call" =>
            IF j = Len(kont) THEN ctrl.m \in {"value", "raise"}
            ELSE /\ kont[j + 1].k = "function_call"
                 /\ funs[kont[j + 1].fn].declaration.name.lexeme = "init"
                 /\ BoundCall(kont, funs, envs, j + 1, funs[kont[j + 1].fn].declaration, kont[j].instance))

\* p.init(8), whose body ends in `return;`, has been called on the first
\* instance after P(7) made it: the call returned p, which println wrote, and
\* init ran a second time on the same instance (p.f is 8).
C11_Witness ==
    /\ program \in InitializerPrograms
    /\ program[1].methods[1].body[Len(program[1].methods[1].body)].node = "Return"
    /\ program[Len(program)].expression.arguments[1].node = "Call"
    /\ phase = "done"
    /\ ~had_runtime_error
    /\ output = <<"<P instance>\n">>
    /\ Len(instances) = 3
    /\ instances[1].fields["f"] = Num(8)
    /\ envs[GLOBALS].values["p"] = InstRef(1)

\* The step applies == or != to two instances or to two callables.
ObjectsCompared ==
    /\ Returned("binary_right")
    /\ Top(kont).e.operator.type \in {"EQUAL_EQUAL", "BANG_EQUAL"}
    /\ \/ Top(kont).left.t = "inst" /\ ctrl.v.t = "inst"
       \/ IsCallable(Top(kont).left) /\ IsCallable(ctrl.v)

\* C12: == on two instances, or on two callables, is true exactly when both
\* operands are the same object (and != exactly when they are not), whatever
\* their fields, declarations and closures hold.
C12_ObjectsEqualByIdentity ==
    [][ObjectsCompared =>
          ctrl' = Value(Bool(IF Top(kont).e.operator.type = "EQUAL_EQUAL"
                             THEN Top(kont).left = ctrl.v
                             ELSE Top(kont).left # ctrl.v))]_vars


----------------------------------------------------------------------------
\* Scanner.scan on single words.

\* The words the language reserves, and the names of the two printing natives.
ReservedWords ==
    { <<"a", "n", "d">>,
      <<"o", "r">>,
      <<"i", "f">>,
      <<"e", "l", "s", "e">>,
      <<"w", "h", "i", "l", "e">>,
      <<"f", "o", "r">>,
      <<"f", "u", "n">>,
      <<"r", "e", "t", "u", "r", "n">>,
      <<"v", "a", "r">>,
      <<"c", "l", "a", "s", "s">>,
      <<"t", "h", "i", "s">>,
      <<"s", "u", "p", "e", "r">>,
      <<"t", "r", "u", "e">>,
      <<"f", "a", "l", "s", "e">>,
      <<"n", "i", "l">>,
      <<"b", "r", "e", "a", "k">>,
      <<"c", "o", "n", "t", "i", "n", "u", "e">> }

NativeNames == {<<"p", "r", "i", "n", "t">>, <<"p", "r", "i", "n", "t", "l", "n">>}

\* Each of these words, the word without its last letter, and the word with
\* one more letter.
Words ==
    LET base == ReservedWords \cup NativeNames
    IN  base \cup {SubSeq(w, 1, Len(w) - 1) : w \in base} \cup {Append(w, "s") : w \in base}

InitWords ==
    /\ source \in Words \ {<<>>}
    /\ start = 0
    /\ current = 0
    /\ line = 1
    /\ tokens = <<>>
    /\ scanPc = "scanning"
    /\ scanExc = ""
    /\ had_error = FALSE
    /\ had_runtime_error = FALSE
    /\ reports = <<>>
    /\ program = <<>>
    /\ phase = "scan"
    /\ stdin = <<>>
    /\ parser = ParserIdle
    /\ InitInterpreter

SpecWords == InitWords /\ [][NextScan]_vars

\* C13: the token the scanner emits for a word of letters is a keyword token
\* exactly when the word is one of and, or, if, else, while, for, fun,
\* return, var, class, this, super, true, false, nil, break, continue; for
\* every other word, print and println among them, it is IDENTIFIER.
C13_KeywordsAreReserved ==
    \A i \in 1..Len(tokens) :
        tokens[i].type # "EOF" =>
            (tokens[i].type # "IDENTIFIER" <=> tokens[i].lexeme \in ReservedWords)


----------------------------------------------------------------------------
\* Environment.assign by itself, on every chain of frames up to MaxFrames.

\* The names and the values of the frames.
FrameNames == {"x", "y"}

\* The chains of n frames: each frame encloses the next, and holds some of
\* the names, bound to 0.
Chains(n) ==
    {[i \in 1..n |-> [enclosing |-> i - 1, values |-> [k \in held[i] |-> Num(0)]]]
        : held \in [1..n -> SUBSET FrameNames]}

InitEnvironment ==
    /\ envs \in UNION {Chains(n) : n \in 1..MaxFrames}
    /\ environment \in 1..Len(envs)
    /\ phase = "environment"
    /\ program = <<>>
    /\ stdin = <<>>
    /\ parser = ParserIdle
    /\ had_error = FALSE
    /\ had_runtime_error = FALSE
    /\ reports = <<>>
    /\ source = <<>>
    /\ start = 0
    /\ current = 0
    /\ line = 1
    /\ tokens = <<>>
    /\ scanPc = "returned"
    /\ scanExc = ""
    /\ locals = EmptyDict
    /\ funs = <<>>
    /\ classes = <<>>
    /\ instances = <<>>
    /\ ctrl = Halt
    /\ kont = <<>>
    /\ output = <<>>
    /\ evalLog = <<>>
    /\ lastExit = [how |-> "none", entered |-> 0, left |-> 0, depth |-> 0]

\* The interpreter calls self._environment.assign(name, value): the frame,
\* the name and the value are any.
Environment_assign_call ==
    /\ phase = "environment"
    /\ kont = <<>>
    /\ \E env \in 1..Len(envs), name \in FrameNames, value \in {Num(1)} :
          /\ environment' = env
          /\ kont' = <<[k |-> "assign", name |-> Ident(0, name), value |-> value]>>
    /\ ctrl' = Halt
    /\ UNCHANGED <<scanVars, loxVars, runVars, locals, heapVars, output, histVars>>

\* Environment.assign returns None or raises.
Environment_assign_return ==
    /\ phase = "environment"
    /\ kont # <<>>
    /\ LET r == Environment_assign(envs, environment, kont[1].name, kont[1].value)
       IN  /\ envs' = r.envs
           /\ ctrl' = IF r.ok THEN Value(Nil)
                      ELSE Raise(RuntimeException(kont[1].name,
                                    "Undefined variable '" \o kont[1].name.lexeme \o "'"))
    /\ kont' = <<>>
    /\ UNCHANGED <<scanVars, loxVars, runVars, environment, locals, funs, classes, instances,
                   output, histVars>>

NextEnvironment == Environment_assign_call \/ Environment_assign_return

SpecEnvironment == InitEnvironment /\ [][NextEnvironment]_vars

\* The frames from env up its enclosing links, nearest first.
RECURSIVE FrameChain(_, _)
FrameChain(es, env) == IF env = 0 THEN <<>> ELSE <<env>> \o FrameChain(es, es[env].enclosing)

\* C15: Environment.assign(name, value) overwrites the binding of name in
\* the nearest frame that holds name, from the receiver up the enclosing
\* links, and changes no other frame and no other binding; when no frame of
\* the chain holds name it raises "Undefined variable" and changes nothing.
C15_AssignNearestFrame ==
    [][(phase = "environment" /\ kont # <<>>) =>
          LET name == kont[1].name.lexeme
              chain == FrameChain(envs, environment)
              holders == {j \in 1..Len(chain) : name \in DOMAIN envs[chain[j]].values}
          IN  IF holders = {}
              THEN /\ ctrl'.m = "raise"
                   /\ ctrl'.exc.type = "RuntimeException"
                   /\ ctrl'.exc.msg = "Undefined variable '" \o name \o "'"
                   /\ envs' = envs
              ELSE LET nearest == chain[CHOOSE j \in holders : \A k \in holders : j <= k]
                   IN  /\ ctrl' = Value(Nil)
                       /\ Len(envs') = Len(envs)
                       /\ envs'[nearest].values[name] = kont[1].value
                       /\ \A e \in 1..Len(envs) :
                             /\ envs'[e].enclosing = envs[e].enclosing
                             /\ DOMAIN envs'[e].values = DOMAIN envs[e].values
                             /\ \A k \in DOMAIN envs[e].values :
                                   (e # nearest \/ k # name) => envs'[e].values[k] = envs[e].values[k]]_vars

\* assign was called on the innermost of three frames for x, which only the
\* outermost holds, while the middle frame holds y: the outermost x is 1, and
\* nothing else has changed.
C15_Witness ==
    /\ phase = "environment"
    /\ ctrl = Value(Nil)
    /\ Len(envs) = 3
    /\ environment = 3
    /\ envs[3].values = EmptyDict
    /\ envs[2].values = [k \in {"y"} |-> Num(0)]
    /\ envs[1].values = [k \in {"x"} |-> Num(1)]


----------------------------------------------------------------------------
\* Parser.parse as Lox.run reaches it (lox.py:58-60), one step for each
\* round of its loop.

\* The _id of the first token of a source is past the _ids of the sources
\* that are still to come.
TokenBase == 400 + 10 * Len(stdin)

\* The tokens the Parser was made with.
ParserOf(p) == [Parser_init EXCEPT !.cur = p.current]

\* Lox.run: scanner.scan() has returned, and Parser(tokens) is made.
Lox_run_parse ==
    /\ phase = "scan"
    /\ scanPc = "returned"
    /\ parser' = ParserIdle
    /\ program' = <<>>
    /\ phase' = "parse"
    /\ UNCHANGED <<scanVars, loxVars, stdin, interpVars, histVars>>

\* The calls of one round of parse: the last one is the call parse made,
\* the ones before it were made by _block within it.  With the call parse
\* made goes the number of diagnostics of the round.
RoundCalls(calls, errs) ==
    [i \in 1..Len(calls) |->
        [from |-> calls[i].from, raised |-> calls[i].raised, to |-> calls[i].to,
         top |-> (i = Len(calls)), reported |-> IF i = Len(calls) THEN Len(errs) ELSE 0]]

\* Parser.parse: one round of `while not self._is_at_end`.
Parser_parse_declaration ==
    /\ phase = "parse"
    /\ LET T == ParserTokens(tokens, TokenBase)
           p == ParserOf(parser)
       IN  /\ ~Parser_is_at_end(T, p)
           /\ LET statement == Parser_method(T, p, "declaration")
              IN  /\ parser' = [current |-> statement.cur,
                                calls |-> parser.calls \o RoundCalls(statement.calls, statement.errs)]
                  /\ program' = IF statement.v # NoneNode THEN Append(program, statement.v) ELSE program
                  /\ reports' = reports \o statement.errs
                  /\ had_error' = (had_error \/ statement.errs # <<>>)
    /\ UNCHANGED <<scanVars, had_runtime_error, phase, stdin, interpVars, histVars>>

\* Parser.parse: the loop is over, the statements are returned.
Parser_parse_return ==
    /\ phase = "parse"
    /\ Parser_is_at_end(ParserTokens(tokens, TokenBase), ParserOf(parser))
    /\ phase' = "parsed"
    /\ UNCHANGED <<scanVars, loxVars, program, stdin, parser, interpVars, histVars>>

\* Longest token list, without its EOF, of the lists the parser is run on.
MaxTokens == 4

\* A token as Scanner._add_token makes it.
Word(type, lexeme) == [type |-> type, lexeme |-> lexeme, literal |-> NoLiteral, line |-> 1]
Eof == Word("EOF", <<>>)

\* The tokens of the lists.
ParseAlphabet ==
    { Word("VAR", <<"v", "a", "r">>), Word("IDENTIFIER", <<"a">>), Word("SEMICOLON", <<";">>),
      Word("LEFT_BRACE", <<"{">>), Word("RIGHT_BRACE", <<"}">>), Word("RIGHT_PAREN", <<")">>) }

\* Every token list of up to MaxTokens tokens of the alphabet and EOF.
TokenLists == {Append(ts, Eof) : ts \in UNION {[1..n -> ParseAlphabet] : n \in 0..MaxTokens}}

\* An identifier of one letter, and a token without literal by its type.
Id(name) == Word("IDENTIFIER", <<name>>)
Sym(type) ==
    Word(type, CASE type = "AND" -> <<"a", "n", "d">>
                 [] type = "OR" -> <<"o", "r">>
                 [] type = "EQUAL_EQUAL" -> <<"=", "=">>
                 [] type = "SEMICOLON" -> <<";">>
                 [] type = "COMMA" -> <<",">>
                 [] type = "LEFT_PAREN" -> <<"(">>
                 [] type = "RIGHT_PAREN" -> <<")">>
                 [] type = "LEFT_BRACE" -> <<"{">>
                 [] type = "RIGHT_BRACE" -> <<"}">>
                 [] type = "FUN" -> <<"f", "u", "n">>
                 [] type = "CLASS" -> <<"c", "l", "a", "s", "s">>
                 [] type = "FOR" -> <<"f", "o", "r">>
                 [] type = "IF" -> <<"i", "f">>
                 [] type = "VAR" -> <<"v", "a", "r">>
                 [] type = "CONTINUE" -> <<"c", "o", "n", "t", "i", "n", "u", "e">>
                 [] type = "EQUAL" -> <<"=">>
                 [] type = "LESS" -> <<"<">>
                 [] type = "PLUS" -> <<"+">>)

\* a and b;   a or b;   a or b and c;   a == b and c;
OperatorLists ==
    { <<Id("a"), Sym(op), Id("b"), Sym("SEMICOLON"), Eof>> : op \in {"AND", "OR"} }
    \cup { <<Id("a"), Sym("OR"), Id("b"), Sym("AND"), Id("c"), Sym("SEMICOLON"), Eof>>,
           <<Id("a"), Sym("EQUAL_EQUAL"), Id("b"), Sym("AND"), Id("c"), Sym("SEMICOLON"), Eof>> }

\* Most parameters of the declarations in the lists.
MaxParams == 3

\* The names of the parameters, and n of them with the commas between.
ParamNames == <<"a", "b", "c", "d", "e">>
RECURSIVE ParamList(_)
ParamList(n) ==
    IF n = 0 THEN <<>>
    ELSE IF n = 1 THEN <<Id(ParamNames[1])>>
    ELSE ParamList(n - 1) \o <<Sym("COMMA"), Id(ParamNames[n])>>

\* fun f(<n parameters>) {}   and   class A { m(<n parameters>) {} }
FunctionList(n) ==
    <<Sym("FUN"), Id("f"), Sym("LEFT_PAREN")>> \o ParamList(n)
        \o <<Sym("RIGHT_PAREN"), Sym("LEFT_BRACE"), Sym("RIGHT_BRACE"), Eof>>
MethodList(n) ==
    <<Sym("CLASS"), Id("A"), Sym("LEFT_BRACE"), Id("m"), Sym("LEFT_PAREN")>> \o ParamList(n)
        \o <<Sym("RIGHT_PAREN"), Sym("LEFT_BRACE"), Sym("RIGHT_BRACE"), Sym("RIGHT_BRACE"), Eof>>
FunctionLists == {FunctionList(n) : n \in 0..MaxParams} \cup {MethodList(n) : n \in 0..MaxParams}

\* Lox.run when scan() has returned a token list.
InitParse ==
    /\ tokens \in TokenLists \cup OperatorLists \cup FunctionLists
    /\ source = <<>>
    /\ start = 0
    /\ current = 0
    /\ line = 1
    /\ scanPc = "returned"
    /\ scanExc = ""
    /\ had_error = FALSE
    /\ had_runtime_error = FALSE
    /\ reports = <<>>
    /\ program = <<>>
    /\ phase = "scan"
    /\ stdin = <<>>
    /\ parser = ParserIdle
    /\ InitInterpreter

NextParse == Lox_run_parse \/ Parser_parse_declaration \/ Parser_parse_return

SpecParse == InitParse /\ [][NextParse]_vars


----------------------------------------------------------------------------
\* Lox.run_prompt (lox.py:45-54): the interactive prompt, one Lox.run for
\* each line.

\* The number of lines input() returns at most.
MaxLines == 3

\* The lines typed at the prompt:  var a;   a=1;   return;   @   "   and the
\* empty line.  `a=1;` is a runtime error as long as a is undefined, `return;`
\* an error of the resolver, `@` an error of the scanner.
PromptLines ==
    { <<"v", "a", "r", " ", "a", ";">>, <<"a", "=", "1", ";">>,
      <<"r", "e", "t", "u", "r", "n", ";">>, <<"@">>, <<"\"">>, <<>> }

\* The lines that report no error on a fresh interpreter.
ErrorFreeLines == { <<"v", "a", "r", " ", "a", ";">> }

\* run_prompt before its loop, on a fresh Lox.
InitPrompt ==
    /\ stdin \in UNION {[1..n -> PromptLines] : n \in 0..MaxLines}
    /\ parser = ParserIdle
    /\ phase = "prompt"
    /\ program = <<>>
    /\ had_error = FALSE
    /\ had_runtime_error = FALSE
    /\ reports = <<>>
    /\ source = <<>>
    /\ start = 0
    /\ current = 0
    /\ line = 1
    /\ tokens = <<>>
    /\ scanPc = "returned"
    /\ scanExc = ""
    /\ InitInterpreter

\* run_prompt: `line = input('>>> ')` returns a line that is not empty, and
\* Lox.run(line) makes its Scanner.
Lox_run_prompt_input ==
    /\ phase = "prompt"
    /\ stdin # <<>>
    /\ Head(stdin) # <<>>
    /\ stdin' = Tail(stdin)
    /\ source' = Head(stdin)
    /\ start' = 0
    /\ current' = 0
    /\ line' = 1
    /\ tokens' = <<>>
    /\ scanPc' = "scanning"
    /\ scanExc' = ""
    /\ phase' = "scan"
    /\ UNCHANGED <<loxVars, program, parser, interpVars, histVars>>

\* run_prompt: the empty line breaks the loop; at the end of the input,
\* input() raises EOFError.
Lox_run_prompt_break ==
    /\ phase = "prompt"
    /\ \/ stdin = <<>> /\ phase' = "eof" /\ UNCHANGED stdin
       \/ stdin # <<>> /\ Head(stdin) = <<>> /\ phase' = "exit" /\ stdin' = Tail(stdin)
    /\ UNCHANGED <<scanVars, loxVars, program, parser, interpVars, histVars>>

\* run_prompt: Lox.run(line) has returned, and both flags are cleared.
Lox_run_prompt_reset ==
    /\ phase = "done"
    /\ had_error' = FALSE
    /\ had_runtime_error' = FALSE
    /\ phase' = "prompt"
    /\ UNCHANGED <<scanVars, reports, program, stdin, parser, interpVars, histVars>>

\* The steps of the prompt; of the interpreter, the ones the statements of
\* the prompt lines take.
NextPrompt ==
    \/ Lox_run_prompt_input \/ Lox_run_prompt_break \/ Lox_run_prompt_reset
    \/ Scanner_scan_token \/ Scanner_scan_return
    \/ Lox_run_parse \/ Parser_parse_declaration \/ Parser_parse_return
    \/ Lox_run_resolve \/ Lox_run_interpret
    \/ interpret_next \/ interpret_return \/ interpret_except
    \/ visit_var_stmt
    \/ visit_expression_stmt \/ expression_stmt_return
    \/ visit_assign_expr \/ assign_expr_store
    \/ visit_literal_expr
    \/ propagate

SpecPrompt == InitPrompt /\ [][NextPrompt]_vars

\* Lox.run has been left by a Python exception, and run_prompt with it.
PromptRaised == scanPc = "raised" \/ phase = "raised"

\* Lox.run starts on a line.
LineStarts == phase = "scan" /\ scanPc = "scanning" /\ current = 0

\* C14: at the prompt each line is processed with both error flags false at
\* its start, and an error on one line, static or runtime, never keeps a
\* later error-free line from being executed: while an error of the current
\* line is flagged and an error-free line is next in the input, the prompt
\* has not been left by an exception.
C14_PromptLinesIndependent ==
    /\ LineStarts => ~had_error /\ ~had_runtime_error
    /\ (had_error \/ had_runtime_error) /\ stdin # <<>> /\ Head(stdin) \in ErrorFreeLines
            => ~PromptRaised

\* The first half of C14 alone: the flags at the start of a line.
PromptFlagsCleared == LineStarts => ~had_error /\ ~had_runtime_error


----------------------------------------------------------------------------
\* Line numbers of the scanner.

\* C24: each newline character inside a string literal adds one to the line
\* counter, as every other newline does: the counter is 1 plus the number of
\* newlines scanned so far, and the tokens after a string that spans k
\* newlines (the EOF token among them) carry a line k higher than the line the
\* string opened on.
C24_StringNewlinesCounted ==
    /\ scanPc # "raised" => line = 1 + Newlines(source, 0, current)
    /\ scanPc = "returned" => tokens[Len(tokens)].line = 1 + Newlines(source, 0, Len(source))

\* Longest source of quotes, newlines and a letter the scanner is run on.
MaxQuoted == 4

\* The sources of strings: every text of up to MaxQuoted characters out of
\* the quote, the newline and one letter.
QuotedSources == UNION {[1..n -> {"\"", "\n", "a"}] : n \in 0..MaxQuoted}

\* Scanner.__init__ on one of these sources.
InitStrings ==
    /\ source \in QuotedSources
    /\ start = 0
    /\ current = 0
    /\ line = 1
    /\ tokens = <<>>
    /\ scanPc = "scanning"
    /\ scanExc = ""
    /\ had_error = FALSE
    /\ had_runtime_error = FALSE
    /\ reports = <<>>
    /\ program = <<>>
    /\ phase = "scan"
    /\ stdin = <<>>
    /\ parser = ParserIdle
    /\ InitInterpreter

SpecStrings == InitStrings /\ [][NextScan]_vars

\* The step scans a string that the end of the source cuts off.
UnterminatedString ==
    /\ scanPc = "scanning"
    /\ ~Scanner_is_at_end(source, current)
    /\ source[current + 1] = "\""
    /\ \A i \in (current + 2)..Len(source) : source[i] # "\""

\* C26: for a string that is not terminated at the end of the input the
\* scanner reports exactly one error, on the line the opening quote is on,
\* and sets had_error.
C26_UnterminatedStringReported ==
    [][UnterminatedString =>
          /\ reports' = ReportLine(reports, 1 + Newlines(source, 0, current), "Unterminated string.")
          /\ had_error']_vars

\* What the scanner does for such a string: one report, on the line its
\* counter stood at when the string opened, and had_error.
UnterminatedStringReportedOnce ==
    [][UnterminatedString =>
          /\ reports' = ReportLine(reports, line, "Unterminated string.")
          /\ had_error']_vars


----------------------------------------------------------------------------
\* The frame Interpreter.interpret leaves behind.

\* C27: when Interpreter.interpret returns, after the last statement or
\* after a runtime error at whatever depth of blocks, calls and class
\* declarations, the current frame of the interpreter is the globals frame
\* and no activation is left.
C27_InterpretLeavesGlobals ==
    [][phase = "interpret" /\ phase' = "done" => environment' = GLOBALS /\ kont' = <<>>]_vars

\* interpret has returned after a runtime error inside the body of a called
\* function: the error left every execute_block on its way, the outermost
\* last, and at least three frames had been made under the globals.
C27_Witness ==
    /\ phase = "done"
    /\ had_runtime_error
    /\ lastExit.how = "RuntimeException"
    /\ lastExit.entered = GLOBALS
    /\ funs # <<>>
    /\ Len(envs) >= 4
    /\ environment = GLOBALS

----------------------------------------------------------------------------
\* Lox.run on `for` loops whose body executes `continue`: the parser, the
\* resolver and the interpreter, one after the other.

\* A number token of the given digits.
NumberWord(digits) == [type |-> "NUMBER", lexeme |-> digits, literal |-> Float(digits), line |-> 1]

\* name = name + <digits>
Stepped(name, digits) == <<Id(name), Sym("EQUAL"), Id(name), Sym("PLUS"), NumberWord(digits)>>

\* var i = 0 ;   and   i < <digits> ;
ForInitializer == <<Sym("VAR"), Id("i"), Sym("EQUAL"), NumberWord(<<"0">>), Sym("SEMICOLON")>>
ForCondition(digits) == <<Id("i"), Sym("LESS"), NumberWord(digits), Sym("SEMICOLON")>>

\* for ( <initializer> <condition> <increment> ) <body>   with what stands
\* before it.
ForList(before, initializer, condition, increment, body) ==
    before \o <<Sym("FOR"), Sym("LEFT_PAREN")>> \o initializer \o condition \o increment
        \o <<Sym("RIGHT_PAREN")>> \o body \o <<Eof>>

\* { i = i + <digits> ; continue ; }
ContinueBody(digits) ==
    <<Sym("LEFT_BRACE")>> \o Stepped("i", digits)
        \o <<Sym("SEMICOLON"), Sym("CONTINUE"), Sym("SEMICOLON"), Sym("RIGHT_BRACE")>>

\* { if ( 1 < i ) { i = i + 10 ; continue ; } }
SometimesBody ==
    <<Sym("LEFT_BRACE"), Sym("IF"), Sym("LEFT_PAREN"), NumberWord(<<"1">>), Sym("LESS"), Id("i"),
      Sym("RIGHT_PAREN")>> \o ContinueBody(<<"1", "0">>) \o <<Sym("RIGHT_BRACE")>>

\* for (var i = 0; i < 11; i = i + 1) { i = i + 10; continue; }
\* for (var i = 0; i < 11; i = i + 10) { if (1 < i) { i = i + 10; continue; } }
\* var i = 0; for (; i < 1; i = i + 10) { i = i + 1; continue; }
\* for (var i = 0; i < 11; ) { i = i + 10; continue; }
\* for (var i = 0; i < 11; i = i + 10) { }
ForLists ==
    { ForList(<<>>, ForInitializer, ForCondition(<<"1", "1">>), Stepped("i", <<"1">>),
              ContinueBody(<<"1", "0">>)),
      ForList(<<>>, ForInitializer, ForCondition(<<"1", "1">>), Stepped("i", <<"1", "0">>),
              SometimesBody),
      ForList(ForInitializer, <<Sym("SEMICOLON")>>, ForCondition(<<"1">>), Stepped("i", <<"1", "0">>),
              ContinueBody(<<"1">>)),
      ForList(<<>>, ForInitializer, ForCondition(<<"1", "1">>), <<>>, ContinueBody(<<"1", "0">>)),
      ForList(<<>>, ForInitializer, ForCondition(<<"1", "1">>), Stepped("i", <<"1", "0">>),
              <<Sym("LEFT_BRACE"), Sym("RIGHT_BRACE")>>) }

\* Lox.run when scan() has returned the tokens of a `for` loop.
InitFor ==
    /\ tokens \in ForLists
    /\ source = <<>>
    /\ start = 0
    /\ current = 0
    /\ line = 1
    /\ scanPc = "returned"
    /\ scanExc = ""
    /\ had_error = FALSE
    /\ had_runtime_error = FALSE
    /\ reports = <<>>
    /\ program = <<>>
    /\ phase = "scan"
    /\ stdin = <<>>
    /\ parser = ParserIdle
    /\ InitInterpreter

\* The steps of Lox.run that these loops take.
NextFor ==
    \/ Lox_run_parse \/ Parser_parse_declaration \/ Parser_parse_return
    \/ Lox_run_resolve \/ Lox_run_interpret
    \/ interpret_next \/ interpret_return
    \/ visit_block_stmt \/ execute_block_next \/ execute_block_exit
    \/ visit_continue_stmt
    \/ visit_expression_stmt \/ expression_stmt_return
    \/ visit_if_stmt \/ if_stmt_branch
    \/ visit_var_stmt \/ var_stmt_initialize
    \/ visit_while_stmt \/ while_stmt_test \/ while_stmt_again
    \/ visit_literal_expr \/ visit_variable_expr
    \/ visit_assign_expr \/ assign_expr_store
    \/ visit_binary_expr \/ binary_expr_right \/ binary_expr_operator

SpecFor == InitFor /\ [][NextFor]_vars

----------------------------------------------------------------------------
\* The trees Parser.parse builds.

\* The variable whose name is the token at place i.
VariableAt(T, i) == Variable(TokenAt(T, i))

\* The tree of the expression of a list of OperatorLists when `and` binds
\* tighter than `or` and looser than `==`.
OperatorTree(toks) ==
    LET T == ParserTokens(toks, TokenBase)
    IN  CASE Len(toks) = 5 -> Logical(VariableAt(T, 1), TokenAt(T, 2), VariableAt(T, 3))
          [] toks[2].type = "OR" ->
                Logical(VariableAt(T, 1), TokenAt(T, 2),
                        Logical(VariableAt(T, 3), TokenAt(T, 4), VariableAt(T, 5)))
          [] OTHER ->
                Logical(Binary(VariableAt(T, 1), TokenAt(T, 2), VariableAt(T, 3)),
                        TokenAt(T, 4), VariableAt(T, 5))

\* C21: `a and b` parses into a Logical node whose operator is the `and`
\* token, tighter than `or` and looser than equality, and no error is
\* reported: when parse has returned on a list of OperatorLists, the program
\* is the one expression statement of that tree and nothing was reported.
C21_AndParsesAsLogical ==
    phase = "parsed" /\ tokens \in OperatorLists
        => /\ reports = <<>>
           /\ ~had_error
           /\ program = <<Expression(OperatorTree(tokens))>>

\* The same for the lists without `and`.
OrParsesAsLogical ==
    phase = "parsed" /\ tokens \in OperatorLists /\ (\A i \in 1..Len(tokens) : tokens[i].type # "AND")
        => /\ reports = <<>>
           /\ program = <<Expression(OperatorTree(tokens))>>

\* The parameter names between the parentheses that open at place open: the
\* tokens at every second place after it, one more than there are commas.
ParameterTokens(toks, open) ==
    LET T == ParserTokens(toks, TokenBase)
        n == IF toks[open + 1].type = "IDENTIFIER"
             THEN 1 + Cardinality({i \in 1..Len(toks) : toks[i].type = "COMMA"})
             ELSE 0
    IN  [k \in 1..n |-> TokenAt(T, open + 2 * k - 1)]

\* The declaration a list of FunctionLists stands for.
FunctionTree(toks) ==
    LET T == ParserTokens(toks, TokenBase)
    IN  IF toks[1].type = "FUN"
        THEN Function(TokenAt(T, 2), ParameterTokens(toks, 3), <<>>)
        ELSE Class(TokenAt(T, 2), NoneNode, <<Function(TokenAt(T, 4), ParameterTokens(toks, 5), <<>>)>>)

\* C23: a function or method declaration with n parameter names parses
\* without error into a Function node whose parameters are those n tokens
\* in order: when parse has returned on a list of FunctionLists, the program
\* is that declaration and nothing was reported.
C23_ParametersParsed ==
    phase = "parsed" /\ tokens \in FunctionLists
        => /\ reports = <<>>
           /\ program = <<FunctionTree(tokens)>>

\* The same for the declarations of at most one parameter.
OneParameterParsed ==
    phase = "parsed" /\ tokens \in FunctionLists /\ (\A i \in 1..Len(tokens) : tokens[i].type # "COMMA")
        => /\ reports = <<>>
           /\ program = <<FunctionTree(tokens)>>

----------------------------------------------------------------------------
\* Parser._synchronize and the rounds of Parser.parse.

\* The calls of _declaration that parse made, in order.
TopCalls == SelectSeq(parser.calls, LAMBDA c : c.top)

\* The token types named as the places where discarding ends.
StatementStarts == {"CLASS", "FUN", "VAR", "FOR", "IF", "WHILE", "RETURN"}

\* Discarding ends with _current = j: the previous token is a semicolon, or
\* the next one starts a statement or is EOF.
DiscardingEnds(toks, j) ==
    \/ toks[j + 1].type = "EOF"
    \/ j >= 1 /\ toks[j].type = "SEMICOLON"
    \/ toks[j + 1].type \in StatementStarts

\* Where parsing resumes after an error raised with _current = r: the token
\* the error is at is passed, unless it is EOF, and then the tokens up to the
\* first place where discarding ends.
ResumePoint(toks, r) ==
    LET first == IF toks[r + 1].type = "EOF" THEN r ELSE r + 1
    IN  CHOOSE j \in first..(Len(toks) - 1) :
            /\ DiscardingEnds(toks, j)
            /\ \A k \in first..(j - 1) : ~DiscardingEnds(toks, k)

\* The tokens of a call of _declaration as a list of their own, with EOF.
CallTokens(T, c) == SubSeq(T, c.from + 1, c.to) \o <<T[Len(T)]>>

\* The tokens of a call are a well-formed declaration: parsed by themselves
\* they give the statement, without a report, and no token is left.
WellFormed(alone, c, statement) ==
    alone.errs = <<>> /\ alone.v = statement /\ alone.cur = c.to - c.from

\* The calls of parse that did not raise.
CleanCalls == SelectSeq(TopCalls, LAMBDA c : c.raised = -1)

\* C22: after a ParseError inside a declaration the parser discards tokens
\* until the previous token is `;` or the next one is class, fun, var, for,
\* if, while, return or EOF, adds no statement for the declaration, and
\* resumes, so that the later well-formed declarations are in the returned
\* list in source order: every call of _declaration that raised ended at
\* the resume point of the place it raised at; the calls parse made follow
\* each other without a gap; and the statements of the program are the
\* statements of the calls of parse that did not raise, in their order,
\* where the tokens of a call without any report are a well-formed
\* declaration and its statement the one they stand for.
C22_SynchronizeResumes ==
    phase \in {"parse", "parsed"} =>
        /\ \A i \in 1..Len(parser.calls) :
                parser.calls[i].raised >= 0
                    => parser.calls[i].to = ResumePoint(tokens, parser.calls[i].raised)
        /\ \A i \in 1..Len(TopCalls) :
                TopCalls[i].from = IF i = 1 THEN 0 ELSE TopCalls[i - 1].to
        /\ Len(program) = Len(CleanCalls)
        /\ \A i \in 1..Len(CleanCalls) :
                CleanCalls[i].reported = 0
                    => WellFormed(Parser_method(CallTokens(ParserTokens(tokens, TokenBase), CleanCalls[i]),
                                                Parser_init, "declaration"),
                                  CleanCalls[i], program[i])

\* parse has returned; a declaration raised and was left at a token that
\* starts a statement, and a later declaration is in the program.
C22_Witness ==
    /\ phase = "parsed"
    /\ \E i, j \in 1..Len(TopCalls) :
            /\ i < j
            /\ TopCalls[i].raised >= 0
            /\ tokens[TopCalls[i].to + 1].type \in StatementStarts
            /\ TopCalls[j].raised = -1
            /\ TopCalls[j].reported = 0
    /\ program # <<>>

\* Every call of _declaration so far has passed a token or ended at EOF.
CallsConsume ==
    \A i \in 1..Len(parser.calls) :
        \/ parser.calls[i].to > parser.calls[i].from
        \/ tokens[parser.calls[i].to + 1].type = "EOF"

\* C29: Parser.parse terminates on every token list that ends in EOF: every
\* round of the loop of parse and of the loop of _block, the ones that end
\* in a ParseError and _synchronize among them, passes at least one token
\* or leaves the parser at EOF; so parse has made no more rounds than it
\* has passed tokens, which are fewer than the list has, and it returns
\* when it is at EOF.
C29_ParseTerminates ==
    phase \in {"parse", "parsed"} =>
        /\ CallsConsume
        /\ Len(TopCalls) <= parser.current
        /\ parser.current < Len(tokens)
        /\ phase = "parsed" => tokens[parser.current + 1].type = "EOF"

\* parse has returned after a round of its own loop and a round of the
\* loop of _block that both ended in a ParseError.
C29_Witness ==
    /\ phase = "parsed"
    /\ \E i \in 1..Len(parser.calls) : ~parser.calls[i].top /\ parser.calls[i].raised >= 0
    /\ \E i \in 1..Len(parser.calls) : parser.calls[i].top /\ parser.calls[i].raised >= 0
    /\ \E i \in 1..Len(parser.calls) :
            /\ parser.calls[i].raised >= 0
            /\ parser.calls[i].raised >= 1
            /\ tokens[parser.calls[i].raised].type = "SEMICOLON"
            /\ tokens[parser.calls[i].raised + 1].type \notin StatementStarts \cup {"EOF"}

----------------------------------------------------------------------------
\* `continue` in the body of a `for` loop.

\* The places of a `for` statement in a token list with one `for` and no
\* parenthesis in its clauses: the keyword, the ')' that ends the clauses,
\* and the ';' that ends the condition.
ForKeyword(toks) == CHOOSE i \in 1..Len(toks) : toks[i].type = "FOR"
ForClausesEnd(toks) ==
    CHOOSE i \in ForKeyword(toks)..Len(toks) :
        /\ toks[i].type = "RIGHT_PAREN"
        /\ \A j \in ForKeyword(toks)..(i - 1) : toks[j].type # "RIGHT_PAREN"
ForConditionEnd(toks) ==
    CHOOSE i \in ForKeyword(toks)..ForClausesEnd(toks) :
        /\ toks[i].type = "SEMICOLON"
        /\ \A j \in (i + 1)..ForClausesEnd(toks) : toks[j].type # "SEMICOLON"

\* The loop has an increment clause, and the expression of the clause.
HasIncrement(toks) == ForClausesEnd(toks) > ForConditionEnd(toks) + 1
IncrementOf(toks) ==
    Parser_method(ParserTokens(toks, TokenBase), [Parser_init EXCEPT !.cur = ForConditionEnd(toks)],
                  "sequence").v

\* The While statement the `for` statement, the last of the program, became.
ForLoop(stmts) ==
    LET last == stmts[Len(stmts)]
    IN  IF last.node = "Block" THEN last.statements[Len(last.statements)] ELSE last

\* A Continue is on its way up the Python stack.
ContinueRaised == phase = "interpret" /\ ctrl.m = "raise" /\ ctrl.exc.type = "Continue"

\* The increment is the last statement of the body of the While.
IncrementEndsBody ==
    phase \in {"parsed", "resolved", "interpret", "done"} /\ HasIncrement(tokens) =>
        /\ ForLoop(program).node = "While"
        /\ ForLoop(program).body.node = "Block"
        /\ Len(ForLoop(program).body.statements) = 2
        /\ ForLoop(program).body.statements[2] = Expression(IncrementOf(tokens))

\* From the raise of Continue on nothing is evaluated until the condition
\* of the loop is.
ContinueToCondition ==
    ContinueRaised /\ HasIncrement(tokens) =>
        /\ evalLog' = evalLog
        /\ \/ ctrl' = ctrl
           \/ ctrl' = Eval(ForLoop(program).condition)

\* C28: in a `for` loop with an increment clause, `continue` in the body
\* goes straight to the next evaluation of the loop condition and the
\* increment clause is not evaluated, the increment being the last
\* statement of the body of the desugared While.
C28_ContinueSkipsIncrement == []IncrementEndsBody /\ [][ContinueToCondition]_vars

\* Continue has reached the While of a `for` loop whose increment was
\* evaluated in an earlier round.
C28_Witness ==
    /\ ContinueRaised
    /\ Top(kont).k = "while_body"
    /\ HasIncrement(tokens)
    /\ \E i \in 1..Len(evalLog) : evalLog[i] = IncrementOf(tokens)

----------------------------------------------------------------------------
\* The keys of Interpreter._locals.  Variable is a frozen dataclass of one
\* field, the name token (expr.py:118-123), and Token a frozen dataclass of
\* _id, type, lexeme, literal and line (tokens.py:67-73), so two Variable
\* nodes of the same name on the same line are equal keys unless the _id of
\* their tokens differ.  Scanner._add_token (scanner.py:170-172) gives _id no
\* value: the ids of the two references below are taken from TokenIds, the
\* same or different.

\* How many values the _id of a token is taken from.
MaxIds == 2
TokenIds == 1..MaxIds

\* { var a = 1; { println(a); } println(a); }
\* { var a = 1; println(a); { println(a); } }
\* { var a = 1; { { println(a); } } println(a); }
\* with x and y the ids of the name tokens of the two references to a.
TwiceReadProgram(shape, x, y) ==
    LET declared == Var(Ident(10, "a"), Number(1))
        first == PrintLn(20, Name(x, "a"))
        second == PrintLn(30, Name(y, "a"))
    IN  CASE shape = "inner first" -> <<Block(<<declared, Block(<<first>>), second>>)>>
          [] shape = "outer first" -> <<Block(<<declared, first, Block(<<second>>)>>)>>
          [] shape = "deep first" -> <<Block(<<declared, Block(<<Block(<<first>>)>>), second>>)>>

TwiceReadShapes == {"inner first", "outer first", "deep first"}
TwiceReadPrograms == {TwiceReadProgram(shape, x, y) : shape \in TwiceReadShapes, x, y \in TokenIds}

\* Lox.run on one of these programs, at the return of parser.parse().
InitLocals ==
    /\ program \in TwiceReadPrograms
    /\ phase = "parsed"
    /\ stdin = <<>>
    /\ parser = ParserIdle
    /\ had_error = FALSE
    /\ had_runtime_error = FALSE
    /\ reports = <<>>
    /\ source = <<>>
    /\ start = 0
    /\ current = 0
    /\ line = 1
    /\ tokens = <<>>
    /\ scanPc = "returned"
    /\ scanExc = ""
    /\ InitInterpreter

\* The steps of Lox.run that these programs take.
NextLocals ==
    \/ Lox_run_resolve \/ Lox_run_interpret
    \/ interpret_next \/ interpret_return
    \/ visit_block_stmt \/ execute_block_next \/ execute_block_exit
    \/ visit_expression_stmt \/ expression_stmt_return
    \/ visit_var_stmt \/ var_stmt_initialize
    \/ visit_literal_expr \/ visit_variable_expr
    \/ visit_call_expr \/ call_expr_arguments \/ call_expr_argument

SpecLocals == InitLocals /\ [][NextLocals]_vars

\* The references to a in the statements of a block at the given depth of
\* blocks, each with the number of scopes between it and the outermost
\* block, where a is declared.
RECURSIVE ReferencesToA(_, _)
ReferencesToA(stmts, depth) ==
    UNION { CASE stmts[i].node = "Block" -> ReferencesToA(stmts[i].statements, depth + 1)
              [] stmts[i].node = "Expression" ->
                    {[expr |-> stmts[i].expression.arguments[1], distance |-> depth - 1]}
              [] OTHER -> {}
            : i \in 1..Len(stmts) }

\* C25: the table of distances is keyed by the identity of the expression
\* node: each of two references to the same name on the same line, at
\* different depths of scopes, has its own distance in the table, and the
\* program prints the value of the variable at both.
C25_DistancePerNode ==
    /\ phase \in {"resolved", "interpret", "done"} =>
            \A r \in ReferencesToA(program, 0) :
                r.expr \in DOMAIN locals /\ locals[r.expr] = r.distance
    /\ phase = "done" => output = <<"1\n", "1\n">>

\* With different ids the two references are different keys, and each has
\* its own distance.
DistinctIdsKeepDistances ==
    (\A r, q \in ReferencesToA(program, 0) : r.expr = q.expr => r = q) => C25_DistancePerNode

====
